---------------------------- MODULE Spec2Model ----------------------------
(***************************************************************************)
(* Timing and scoring core of termania.                                    *)
(*                                                                         *)
(*   src/note.py        TapNote, HoldNote, RollNote, MineNote              *)
(*   src/game_field.py  GameField (scoreboard, one lock, lane cursors)     *)
(*   src/bps_lines.py   BPSLines (piecewise beat/time map)                 *)
(*                                                                         *)
(* Song times and timing windows are integers in units of 0.0001 s, so    *)
(* 0.0225 s is 225 and 5 s is 50000.  Python's None is the string "None"   *)
(* for a judgement and the empty sequence for an accuracy.                 *)
(***************************************************************************)
EXTENDS Integers, Sequences, FiniteSets, TLC

VARIABLES
    \* ---- GameField (src/game_field.py) ----
    note_columns,       \* __note_columns: per lane, the sorted notes
    note_cursors,       \* __note_cursors: per lane, 0-based index of the head note
    judgement_counts,   \* __judgement_counts
    last_judgement,     \* __last_judgement
    nps_avg,            \* __nps_avg, a fraction <<num, den>>
    accuracy_avg,       \* __accuracy_avg, a fraction <<num, den>>
    game_lock,          \* __game_lock: "free" or the thread holding it
    pc,                 \* per thread, its position in the handler it runs
    inp,                \* the input thread's arguments and locals
    pl,                 \* the polling thread's arguments and locals
    result,             \* per thread, how its last finished call ended
    snapshot,           \* what the render thread's last get_metrics returned
    scored,             \* history: per note, the threads that recorded its judgement
    pre,                \* history: scoreboard as the call holding the lock found it
    song_clock,         \* the song time game_logic reads for its next tick
    note_locks,         \* per note, "free" or the thread inside its lock
    \* ---- a single Note driven directly (src/note.py) ----
    note,               \* the note
    note_ret,           \* what the last call on it returned
    note_log,           \* history: the last call and the presses so far
    \* ---- BPSLines (src/bps_lines.py) ----
    bps_lines,          \* __bps_lines: sequence of <<start_time, start_beat, bps>>
    bps_outcome,        \* how the last construction call ended
    stops_added,        \* history: stops handed to add_beat_stops so far
    query,              \* the last beat_at_time / time_at_beat call and its result
    bps_call            \* history: the last construction call a loader made

gfVars == <<note_columns, note_cursors, judgement_counts, last_judgement,
            nps_avg, accuracy_avg, game_lock, pc, inp, pl, result, snapshot,
            scored, pre, song_clock, note_locks>>
bpsVars == <<bps_lines, bps_outcome, stops_added, query, bps_call>>

\* What the GameField's threads never touch.
offField == <<song_clock, note_locks, note, note_ret, note_log, bps_lines, bps_outcome,
             stops_added, query, bps_call>>

noteVars == <<note, note_ret, note_log>>

vars == <<note_columns, note_cursors, judgement_counts, last_judgement,
          nps_avg, accuracy_avg, game_lock, pc, inp, pl, result, snapshot,
          scored, pre, song_clock, note_locks, note, note_ret, note_log,
          bps_lines, bps_outcome, stops_added, query, bps_call>>

----------------------------------------------------------------------------
(* Helpers *)

Abs(x) == IF x < 0 THEN -x ELSE x

Min(a, b) == IF a <= b THEN a ELSE b

RECURSIVE SumSeq(_)
SumSeq(s) == IF s = <<>> THEN 0 ELSE Head(s) + SumSeq(Tail(s))

----------------------------------------------------------------------------
(* src/judgement.py is imported by note.py; its members are used by name. *)

Judgements == {"MARVELOUS", "PERFECT", "GREAT", "GOOD", "BOO", "MISS", "OK", "NG"}

None == "None"

----------------------------------------------------------------------------
(* Timing windows of src/note.py, in units of 0.0001 s *)

MarvelousWindow == 225
PerfectWindow == 450
GreatWindow == 900
GoodWindow == 1350
BooWindow == 1800
MineWindow == 500
HoldDecay == 2500
RollDecay == 5000
NeverHeld == -10000

----------------------------------------------------------------------------
(* Notes.  A note is a record of its immutable attributes (kind, timing,  *)
(* tail_timing) and its state (judgement, accuracy, last_held).  Tap and   *)
(* Mine have no tail and no last_held; the fields are kept at fixed values *)
(* so that all notes have one shape.                                       *)

NewNote(kind, timing, tail_timing) ==
    [kind |-> kind, timing |-> timing, tail_timing |-> tail_timing,
     judgement |-> None, accuracy |-> <<>>, last_held |-> NeverHeld]

\* Each handler returns the note after the call and the value returned.
Ret(n, r) == [note |-> n, ret |-> r]

\* A press before the Boo window stored as a miss.
TapPressEarlyCloses(n, song_time) ==
    LET delta == song_time - n.timing
        abs_delta_time == Abs(delta)
        j == IF abs_delta_time <= MarvelousWindow THEN "MARVELOUS"
             ELSE IF abs_delta_time <= PerfectWindow THEN "PERFECT"
             ELSE IF abs_delta_time <= GreatWindow THEN "GREAT"
             ELSE IF abs_delta_time <= GoodWindow THEN "GOOD"
             ELSE IF abs_delta_time <= BooWindow THEN "BOO"
             ELSE "MISS"
        acc == IF abs_delta_time <= BooWindow THEN <<delta>> ELSE <<>>
    IN  Ret([n EXCEPT !.judgement = j, !.accuracy = acc], j)

TapPress(n, song_time) ==
    LET delta == song_time - n.timing
        abs_delta_time == Abs(delta)
        j == IF abs_delta_time <= MarvelousWindow THEN "MARVELOUS"
             ELSE IF abs_delta_time <= PerfectWindow THEN "PERFECT"
             ELSE IF abs_delta_time <= GreatWindow THEN "GREAT"
             ELSE IF abs_delta_time <= GoodWindow THEN "GOOD"
             ELSE IF abs_delta_time <= BooWindow THEN "BOO"
             ELSE IF song_time > n.timing THEN "MISS"
             ELSE n.judgement
        acc == IF abs_delta_time <= BooWindow THEN <<delta>> ELSE <<>>
    IN  Ret([n EXCEPT !.judgement = j, !.accuracy = acc], j)

\* The miss stored but `return Judgement.MISS` left out.
TapPollNoReturn(n, song_time, held) ==
    IF song_time - n.timing > BooWindow
    THEN Ret([n EXCEPT !.judgement = "MISS"], None)
    ELSE Ret(n, None)

TapPoll(n, song_time, held) ==
    IF song_time - n.timing > BooWindow
    THEN Ret([n EXCEPT !.judgement = "MISS"], "MISS")
    ELSE Ret(n, None)

HoldPress(n, song_time) ==
    LET delta_time == song_time - n.timing
    IN  IF delta_time >= -BooWindow
        THEN Ret([n EXCEPT !.accuracy = IF @ = <<>> THEN <<delta_time>> ELSE @,
                           !.last_held = song_time], None)
        ELSE Ret(n, None)

\* A held key taken for a press: the hold starts without a press event.
HoldPollHeldStarts(n, song_time, held) ==
    LET n2 == IF n.last_held >= 0
              THEN IF song_time >= n.tail_timing
                   THEN [n EXCEPT !.judgement = "OK"]
                   ELSE IF song_time - HoldDecay > n.last_held
                   THEN [n EXCEPT !.judgement = "NG"]
                   ELSE IF held /\ song_time - n.timing >= -BooWindow
                   THEN [n EXCEPT !.last_held = song_time]
                   ELSE n
              ELSE IF held /\ Abs(song_time - n.timing) <= BooWindow
                   THEN [n EXCEPT !.last_held = song_time]
                   ELSE IF song_time - n.timing > BooWindow
                   THEN [n EXCEPT !.judgement = "MISS"]
                   ELSE n
    IN  Ret(n2, n2.judgement)

HoldPoll(n, song_time, held) ==
    LET n2 == IF n.last_held >= 0
              THEN IF song_time >= n.tail_timing
                   THEN [n EXCEPT !.judgement = "OK"]
                   ELSE IF song_time - HoldDecay > n.last_held
                   THEN [n EXCEPT !.judgement = "NG"]
                   ELSE IF held /\ song_time - n.timing >= -BooWindow
                   THEN [n EXCEPT !.last_held = song_time]
                   ELSE n
              ELSE IF song_time - n.timing > BooWindow
                   THEN [n EXCEPT !.judgement = "MISS"]
                   ELSE n
    IN  Ret(n2, n2.judgement)

RollPress(n, song_time) ==
    LET delta_time == song_time - n.timing
    IN  IF delta_time >= -BooWindow
        THEN Ret([n EXCEPT !.accuracy = IF @ = <<>> THEN <<delta_time>> ELSE @,
                           !.last_held = song_time], None)
        ELSE Ret(n, None)

RollPoll(n, song_time, held) ==
    LET n2 == IF n.last_held >= 0
              THEN IF song_time >= n.tail_timing
                   THEN [n EXCEPT !.judgement = "OK"]
                   ELSE IF song_time - RollDecay > n.last_held
                   THEN [n EXCEPT !.judgement = "NG"]
                   ELSE n
              ELSE IF song_time - n.timing > BooWindow
                   THEN [n EXCEPT !.judgement = "MISS"]
                   ELSE n
    IN  Ret(n2, n2.judgement)

MinePress(n, song_time) ==
    IF Abs(song_time - n.timing) <= MineWindow
    THEN Ret([n EXCEPT !.judgement = "NG"], "NG")
    ELSE Ret(n, None)

MinePoll(n, song_time, held) ==
    IF song_time - n.timing > MineWindow
    THEN Ret([n EXCEPT !.judgement = "OK"], "OK")
    ELSE IF held /\ Abs(song_time - n.timing) <= MineWindow
    THEN Ret([n EXCEPT !.judgement = "NG"], "NG")
    ELSE Ret(n, None)

\* Dynamic dispatch on the note's class.
NotePress(n, song_time) ==
    CASE n.kind = "Tap"  -> TapPress(n, song_time)
      [] n.kind = "Hold" -> HoldPress(n, song_time)
      [] n.kind = "Roll" -> RollPress(n, song_time)
      [] n.kind = "Mine" -> MinePress(n, song_time)

\* release returns None in all four classes.
NoteRelease(n, song_time) == Ret(n, None)

NotePoll(n, song_time, held) ==
    CASE n.kind = "Tap"  -> TapPoll(n, song_time, held)
      [] n.kind = "Hold" -> HoldPoll(n, song_time, held)
      [] n.kind = "Roll" -> RollPoll(n, song_time, held)
      [] n.kind = "Mine" -> MinePoll(n, song_time, held)

----------------------------------------------------------------------------
(* GameField.  Lanes (key_index) and cursors are 0-based as in the code;   *)
(* At reads a 1-based TLA+ sequence at a 0-based index.                    *)

At(s, i) == s[i + 1]

Threads == {"input", "poller", "render"}

\* sorted(column, key=lambda x: x.timing): a stable sort by head timing.
RECURSIVE InsertByTiming(_, _)
InsertByTiming(sorted_notes, n) ==
    IF sorted_notes = <<>> THEN <<n>>
    ELSE IF Head(sorted_notes).timing <= n.timing
         THEN <<Head(sorted_notes)>> \o InsertByTiming(Tail(sorted_notes), n)
         ELSE <<n>> \o sorted_notes

RECURSIVE SortByTiming(_)
SortByTiming(column) ==
    IF column = <<>> THEN <<>>
    ELSE InsertByTiming(SortByTiming(SubSeq(column, 1, Len(column) - 1)),
                        column[Len(column)])

\* The charts a session is constructed with, as the chart loader hands them
\* over (per lane, in row order).
Charts ==
    { << <<NewNote("Tap", 10000, 10000), NewNote("Hold", 20000, 30000)>> >>,
      << <<NewNote("Tap", 10000, 10000)>>, <<NewNote("Mine", 10000, 10000)>> >>,
      << <<NewNote("Mine", 10000, 10000)>>, <<>> >>,
      << <<NewNote("Tap", 20000, 20000), NewNote("Tap", 10000, 10000)>> >>,
      << <<NewNote("Roll", 10000, 30000)>> >>,
      << <<NewNote("Tap", 8000, 8000), NewNote("Tap", 10000, 10000),
           NewNote("Tap", 30000, 30000)>> >> }

\* The song times the callers supply.
GFTimes == {8000, 10000, 12000, 20000, 23000, 30000}

NumLanes == Len(note_columns)

Lanes == 0 .. (NumLanes - 1)

HeldFlags == [1 .. NumLanes -> BOOLEAN]

ZeroCounts == [j \in Judgements |-> 0]

InpIdle == [key |-> 0, time |-> 0, index |-> 0, judgement |-> None]

PlIdle == [time |-> 0, held |-> <<>>, col_i |-> 0, index |-> 0,
           checking |-> FALSE, complete |-> TRUE, judgement |-> None]

NoPre == [active |-> FALSE]

\* GameField.__init__
GameFieldInit(chart) ==
    /\ game_lock = "free"
    /\ note_cursors = [c \in 1 .. Len(chart) |-> 0]
    /\ note_columns = [c \in 1 .. Len(chart) |-> SortByTiming(chart[c])]
    /\ judgement_counts = ZeroCounts
    /\ last_judgement = None
    /\ nps_avg = <<0, 1>>
    /\ accuracy_avg = <<0, 1>>

\* `with self.__game_lock:` lets a thread in only while no thread holds it.
\* The lock left out: every `with self.__game_lock` enters at once.
LockNeverHeld == TRUE

LockFree == game_lock = "free"

\* `= 1` written for `+= 1`.
CountJudgementSet(judgement) ==
    [judgement_counts EXCEPT ![judgement] = 1]

\* self.__judgement_counts[judgement] += 1
CountJudgement(judgement) ==
    [judgement_counts EXCEPT ![judgement] = @ + 1]

\* The cursor increment left out.
AdvanceCursorStuck(key_index) == note_cursors

\* `+= 2` written for `+= 1`.
AdvanceCursorTwice(key_index) ==
    [note_cursors EXCEPT ![key_index + 1] = @ + 2]

\* self.__note_cursors[key_index] += 1
AdvanceCursor(key_index) ==
    [note_cursors EXCEPT ![key_index + 1] = @ + 1]

\* The block that records a returned judgement, in press_key, release_key
\* and poll alike.
Record(thread, key_index, note_index, judgement) ==
    /\ judgement_counts' = CountJudgement(judgement)
    /\ last_judgement' = judgement
    /\ note_cursors' = AdvanceCursor(key_index)
    /\ scored' = [scored EXCEPT ![key_index + 1] =
                     IF note_index + 1 \in DOMAIN @
                     THEN [@ EXCEPT ![note_index + 1] = Append(@, thread)]
                     ELSE @]

Scoreboard == [counts |-> judgement_counts, last |-> last_judgement,
               cursors |-> note_cursors, columns |-> note_columns]

RECURSIVE PollLane(_, _, _, _)
\* The while loop of poll on one column, run to its end: the column and the
\* cursor it leaves and the judgements it records, in order.
PollLane(column, cursor, song_time, held) ==
    IF cursor >= Len(column)
    THEN [column |-> column, cursor |-> cursor, judged |-> <<>>]
    ELSE LET r == NotePoll(column[cursor + 1], song_time, held)
             polled == [column EXCEPT ![cursor + 1] = r.note]
         IN  IF r.ret = None
             THEN [column |-> polled, cursor |-> cursor, judged |-> <<>>]
             ELSE LET rest == PollLane(polled, cursor + 1, song_time, held)
                  IN  [rest EXCEPT !.judged = <<r.ret>> \o @]

\* ---- press_key / release_key: the input thread ----

\* A call is made and waits for the lock.  Its arguments are arbitrary, so
\* they are drawn when the lock is taken.
PressCall ==
    /\ pc["input"] = "idle"
    /\ pc' = [pc EXCEPT !["input"] = "press_wait"]
    /\ UNCHANGED <<note_columns, note_cursors, judgement_counts, last_judgement,
                   nps_avg, accuracy_avg, game_lock, inp, pl, result, snapshot,
                   scored, pre, offField>>

ReleaseCall ==
    /\ pc["input"] = "idle"
    /\ pc' = [pc EXCEPT !["input"] = "release_wait"]
    /\ UNCHANGED <<note_columns, note_cursors, judgement_counts, last_judgement,
                   nps_avg, accuracy_avg, game_lock, inp, pl, result, snapshot,
                   scored, pre, offField>>

PressAcquire(key_index, song_time) ==
    /\ pc["input"] = "press_wait"
    /\ LockFree
    /\ game_lock' = "input"
    /\ pc' = [pc EXCEPT !["input"] = "press_note"]
    /\ inp' = [InpIdle EXCEPT !.key = key_index, !.time = song_time]
    /\ pre' = [active |-> TRUE, board |-> Scoreboard]
    /\ UNCHANGED <<note_columns, note_cursors, judgement_counts, last_judgement,
                   nps_avg, accuracy_avg, pl, result, snapshot, scored, offField>>

ReleaseAcquire(key_index, song_time) ==
    /\ pc["input"] = "release_wait"
    /\ LockFree
    /\ game_lock' = "input"
    /\ pc' = [pc EXCEPT !["input"] = "release_note"]
    /\ inp' = [InpIdle EXCEPT !.key = key_index, !.time = song_time]
    /\ UNCHANGED <<note_columns, note_cursors, judgement_counts, last_judgement,
                   nps_avg, accuracy_avg, pl, result, snapshot, scored,
                   pre, offField>>

\* The input thread leaves the `with` block and its handler returns None.
InputReturn ==
    /\ game_lock' = "free"
    /\ pc' = [pc EXCEPT !["input"] = "idle"]
    /\ inp' = InpIdle
    /\ pre' = NoPre
    /\ result' = [result EXCEPT !["input"] = "None"]

\* column[note_index].press(song_time) or .release(song_time) on the head note
InputNote(at, next) ==
    /\ pc["input"] = at
    /\ LET column == At(note_columns, inp.key)
           note_index == At(note_cursors, inp.key)
       IN  IF note_index < Len(column)
           THEN LET r == IF at = "press_note"
                         THEN NotePress(At(column, note_index), inp.time)
                         ELSE NoteRelease(At(column, note_index), inp.time)
                IN  /\ note_columns' = [note_columns EXCEPT
                                           ![inp.key + 1][note_index + 1] = r.note]
                    /\ inp' = [inp EXCEPT !.index = note_index,
                                          !.judgement = r.ret]
                    /\ pc' = [pc EXCEPT !["input"] = next]
                    /\ UNCHANGED <<game_lock, result, pre>>
           ELSE /\ InputReturn
                /\ UNCHANGED note_columns
    /\ UNCHANGED <<note_cursors, judgement_counts, last_judgement, nps_avg,
                   accuracy_avg, pl, snapshot, scored, offField>>

PressNote == InputNote("press_note", "press_score")

ReleaseNote == InputNote("release_note", "release_score")

\* if judgement is not None: count it, remember it, advance the cursor
InputScore(at) ==
    /\ pc["input"] = at
    /\ IF inp.judgement # None
       THEN Record("input", inp.key, inp.index, inp.judgement)
       ELSE UNCHANGED <<judgement_counts, last_judgement, note_cursors, scored>>
    /\ InputReturn
    /\ UNCHANGED <<note_columns, nps_avg, accuracy_avg, pl, snapshot, offField>>

PressScore == InputScore("press_score")

ReleaseScore == InputScore("release_score")

\* ---- poll: the polling thread (game_logic's tick) ----

PollCall ==
    /\ pc["poller"] = "idle"
    /\ pc' = [pc EXCEPT !["poller"] = "poll_wait"]
    /\ UNCHANGED <<note_columns, note_cursors, judgement_counts, last_judgement,
                   nps_avg, accuracy_avg, game_lock, inp, pl, result, snapshot,
                   scored, pre, offField>>

\* with self.__game_lock: chart_complete = True; the for loop starts
PollAcquire(song_time, held) ==
    /\ pc["poller"] = "poll_wait"
    /\ LockFree
    /\ game_lock' = "poller"
    /\ pc' = [pc EXCEPT !["poller"] = "poll_note"]
    /\ pl' = [PlIdle EXCEPT !.time = song_time, !.held = held,
                            !.complete = TRUE, !.col_i = 0, !.checking = TRUE]
    /\ pre' = [active |-> TRUE, board |-> Scoreboard]
    /\ UNCHANGED <<note_columns, note_cursors, judgement_counts, last_judgement,
                   nps_avg, accuracy_avg, inp, result, snapshot, scored, offField>>

\* One evaluation of the loops' conditions: poll the head note of column
\* col_i, or move to the next column, or leave the for loop.
PollNote ==
    /\ pc["poller"] = "poll_note"
    /\ IF pl.col_i >= NumLanes
       THEN /\ pc' = [pc EXCEPT !["poller"] = "poll_metrics"]
            /\ UNCHANGED <<pl, note_columns>>
       ELSE LET column == At(note_columns, pl.col_i)
                note_index == At(note_cursors, pl.col_i)
            IN  IF pl.checking /\ note_index < Len(column)
                THEN LET r == NotePoll(At(column, note_index), pl.time,
                                       At(pl.held, pl.col_i))
                     IN  /\ note_columns' = [note_columns EXCEPT
                                  ![pl.col_i + 1][note_index + 1] = r.note]
                         /\ pl' = [pl EXCEPT !.judgement = r.ret,
                                             !.index = note_index,
                                             !.complete = FALSE]
                         /\ pc' = [pc EXCEPT !["poller"] = "poll_score"]
                ELSE /\ pl' = [pl EXCEPT !.col_i = @ + 1, !.checking = TRUE]
                     /\ UNCHANGED <<pc, note_columns>>
    /\ UNCHANGED <<note_cursors, judgement_counts, last_judgement, nps_avg,
                   accuracy_avg, game_lock, inp, result, snapshot, scored,
                   pre, offField>>

\* The column left after its first recorded judgement.
PollScoreOnce ==
    /\ pc["poller"] = "poll_score"
    /\ IF pl.judgement = None
       THEN /\ pl' = [pl EXCEPT !.checking = FALSE]
            /\ UNCHANGED <<judgement_counts, last_judgement, note_cursors, scored>>
       ELSE /\ Record("poller", pl.col_i, pl.index, pl.judgement)
            /\ pl' = [pl EXCEPT !.judgement = None, !.checking = FALSE]
    /\ pc' = [pc EXCEPT !["poller"] = "poll_note"]
    /\ UNCHANGED <<note_columns, nps_avg, accuracy_avg, game_lock, inp, result,
                   snapshot, pre, offField>>

\* if judgement is None: stop on this column; else record and check the next
PollScore ==
    /\ pc["poller"] = "poll_score"
    /\ IF pl.judgement = None
       THEN /\ pl' = [pl EXCEPT !.checking = FALSE]
            /\ UNCHANGED <<judgement_counts, last_judgement, note_cursors, scored>>
       ELSE /\ Record("poller", pl.col_i, pl.index, pl.judgement)
            /\ pl' = [pl EXCEPT !.judgement = None]
    /\ pc' = [pc EXCEPT !["poller"] = "poll_note"]
    /\ UNCHANGED <<note_columns, nps_avg, accuracy_avg, game_lock, inp, result,
                   snapshot, pre, offField>>

\* The metrics window, 5 s, in units of 0.0001 s.
MetricsWindow == 50000

RECURSIVE WalkColumnNoWindow(_, _, _)
\* The walk taking every note from index note_i down, however old.
WalkColumnNoWindow(column, note_i, song_time) ==
    IF note_i >= 0
    THEN At(column, note_i).accuracy \o WalkColumnNoWindow(column, note_i - 1, song_time)
    ELSE <<>>

\* The walk of one column: the accuracies, where defined, of the notes from
\* index note_i down to the first one whose timing is outside the window.
RECURSIVE WalkColumn(_, _, _)
WalkColumn(column, note_i, song_time) ==
    IF note_i >= 0 /\ (song_time - MetricsWindow) < At(column, note_i).timing
    THEN At(column, note_i).accuracy \o WalkColumn(column, note_i - 1, song_time)
    ELSE <<>>

\* column[note_i] with note_i = min(cursor, len(column)) is read before
\* anything else in the walk: it raises IndexError when note_i = len(column).
WalkRaises(column, cursor) == Min(cursor, Len(column)) >= Len(column)

RECURSIVE WalkAll(_, _, _)
WalkAll(columns, cursors, song_time) ==
    IF columns = <<>> THEN <<>>
    ELSE WalkColumn(Head(columns), Min(Head(cursors), Len(Head(columns))), song_time)
         \o WalkAll(Tail(columns), Tail(cursors), song_time)

BoolStr(b) == IF b THEN "True" ELSE "False"

\* The windowed metrics update, the end of the `with` block and the return.
PollMetricsBody ==
    /\ pc["poller"] = "poll_metrics"
    /\ IF \E c \in 1 .. NumLanes : WalkRaises(note_columns[c], note_cursors[c])
       THEN /\ result' = [result EXCEPT !["poller"] = "IndexError"]
            /\ UNCHANGED <<nps_avg, accuracy_avg>>
       ELSE LET accs == WalkAll(note_columns, note_cursors, pl.time)
                note_count == Len(accs)
                accuracy_sum == SumSeq(accs)
            IN  /\ IF note_count > 0
                   THEN /\ nps_avg' = <<note_count, 5>>
                        /\ accuracy_avg' = <<accuracy_sum, note_count * 5>>
                   ELSE /\ nps_avg' = <<0, 1>>
                        /\ accuracy_avg' = <<0, 1>>
                /\ result' = [result EXCEPT !["poller"] = BoolStr(pl.complete)]
    /\ game_lock' = "free"
    /\ pc' = [pc EXCEPT !["poller"] = "idle"]
    /\ pl' = PlIdle
    /\ pre' = NoPre
    /\ UNCHANGED <<note_columns, note_cursors, judgement_counts, last_judgement,
                   inp, snapshot, scored>>

PollMetrics ==
    /\ PollMetricsBody
    /\ UNCHANGED offField

\* ---- get_metrics: the render thread ----

MetricsCall ==
    /\ pc["render"] = "idle"
    /\ pc' = [pc EXCEPT !["render"] = "metrics_wait"]
    /\ UNCHANGED <<note_columns, note_cursors, judgement_counts, last_judgement,
                   nps_avg, accuracy_avg, game_lock, inp, pl, result, snapshot,
                   scored, pre, offField>>

MetricsAcquire ==
    /\ pc["render"] = "metrics_wait"
    /\ LockFree
    /\ game_lock' = "render"
    /\ pc' = [pc EXCEPT !["render"] = "metrics_copy"]
    /\ UNCHANGED <<note_columns, note_cursors, judgement_counts, last_judgement,
                   nps_avg, accuracy_avg, inp, pl, result, snapshot, scored,
                   pre, offField>>

\* The count table handed out as the scoreboard's own dict, not a copy.
CopyCountsAlias == [alias |-> TRUE, table |-> judgement_counts]

\* self.__judgement_counts.copy(): a new dict with the entries of this
\* moment.  `alias` tells whether a dict is the scoreboard's own object.
CopyCounts == [alias |-> FALSE, table |-> judgement_counts]

\* return self.__judgement_counts.copy(), self.__last_judgement, ...
\* The caller either keeps the tuple it is handed or drops it at once.
MetricsReturn(keep) ==
    /\ pc["render"] = "metrics_copy"
    /\ snapshot' = IF keep
                   THEN [counts |-> CopyCounts, last |-> last_judgement,
                         nps |-> nps_avg, accuracy |-> accuracy_avg]
                   ELSE <<>>
    /\ game_lock' = "free"
    /\ pc' = [pc EXCEPT !["render"] = "idle"]
    /\ UNCHANGED result
    /\ UNCHANGED <<note_columns, note_cursors, judgement_counts, last_judgement,
                   nps_avg, accuracy_avg, inp, pl, scored, pre, offField>>

----------------------------------------------------------------------------
(* The play session: a GameField and the three threads of src/main.py.     *)

\* No single note is driven and no map is built.
NoCall == [op |-> "none", time |-> 0, held |-> FALSE, last_press |-> <<>>,
           early |-> FALSE, press_scored |-> FALSE]

NoNote ==
    /\ note = NewNote("Tap", 0, 0)
    /\ note_ret = None
    /\ note_log = NoCall

NoQuery == [op |-> "none"]

\* bps_call is written only where a specification follows a loader's calls
\* (CallSpec); the construction calls themselves do not know of it.
NoBpsCall == [op |-> "none"]

NoBpsLines ==
    /\ query = NoQuery
    /\ bps_call = NoBpsCall
    /\ bps_lines = <<>>
    /\ bps_outcome = "ok"
    /\ stops_added = 0

\* A session on `chart`, its threads idle.
Session(chart) ==
    /\ GameFieldInit(chart)
    /\ scored = [c \in 1 .. Len(chart) |-> [i \in 1 .. Len(chart[c]) |-> <<>>]]
    /\ pc = [t \in Threads |-> "idle"]
    /\ inp = InpIdle
    /\ pl = PlIdle
    /\ result = [t \in Threads |-> "None"]
    /\ snapshot = <<>>
    /\ pre = NoPre
    /\ song_clock = 0
    /\ note_locks = [owner |-> [c \in 1 .. Len(chart) |->
                                   [i \in 1 .. Len(chart[c]) |-> "free"]],
                     walked |-> 0]

Init ==
    /\ \E chart \in Charts : Session(chart)
    /\ NoNote
    /\ NoBpsLines

Next ==
    \/ PressCall
    \/ ReleaseCall
    \/ \E k \in Lanes, t \in GFTimes : PressAcquire(k, t)
    \/ \E k \in Lanes, t \in GFTimes : ReleaseAcquire(k, t)
    \/ PressNote
    \/ ReleaseNote
    \/ PressScore
    \/ ReleaseScore
    \/ PollCall
    \/ \E t \in GFTimes, h \in HeldFlags : PollAcquire(t, h)
    \/ PollNote
    \/ PollScore
    \/ PollMetrics
    \/ MetricsCall
    \/ MetricsAcquire
    \/ MetricsReturn(FALSE)

Spec == Init /\ [][Next]_vars

----------------------------------------------------------------------------
(* The render loop of src/render.py keeps what get_metrics returned.  The  *)
(* tuple is the caller's: it may write into the count table it was given.  *)

\* What the caller reads from the tuple it holds.
SnapshotView ==
    [counts |-> IF snapshot.counts.alias THEN judgement_counts
                ELSE snapshot.counts.table,
     last |-> snapshot.last, nps |-> snapshot.nps, accuracy |-> snapshot.accuracy]

\* judgement_counts[judgement] = -1, on the returned table
MutateSnapshot(judgement) ==
    /\ pc["render"] = "idle"
    /\ snapshot # <<>>
    /\ IF snapshot.counts.alias
       THEN /\ judgement_counts' = [judgement_counts EXCEPT ![judgement] = -1]
            /\ UNCHANGED snapshot
       ELSE /\ snapshot' = [snapshot EXCEPT !.counts.table[judgement] = -1]
            /\ UNCHANGED judgement_counts
    /\ UNCHANGED <<note_columns, note_cursors, last_judgement, nps_avg,
                   accuracy_avg, game_lock, pc, inp, pl, result, scored, pre,
                   offField>>

\* The charts of the sessions whose snapshots are kept.
SnapCharts == {chart \in Charts : Len(chart) = 2}

SnapInit ==
    /\ \E chart \in SnapCharts : Session(chart)
    /\ NoNote
    /\ NoBpsLines

SnapNext ==
    \/ PressCall
    \/ ReleaseCall
    \/ \E k \in Lanes, t \in GFTimes : PressAcquire(k, t)
    \/ \E k \in Lanes, t \in GFTimes : ReleaseAcquire(k, t)
    \/ PressNote
    \/ ReleaseNote
    \/ PressScore
    \/ ReleaseScore
    \/ PollCall
    \/ \E t \in GFTimes, h \in HeldFlags : PollAcquire(t, h)
    \/ PollNote
    \/ PollScore
    \/ PollMetrics
    \/ MetricsCall
    \/ MetricsAcquire
    \/ MetricsReturn(TRUE)
    \/ \E j \in {"MISS", "NG"} : MutateSnapshot(j)

SnapSpec == SnapInit /\ [][SnapNext]_vars

----------------------------------------------------------------------------
(* The game tick of src/main.py: game_logic polls with the playback's      *)
(* position, which only moves forward while the song plays.  The clock     *)
(* stops at the last of GFTimes, by which every note of Charts is due.     *)

LastTime == CHOOSE t \in GFTimes : \A u \in GFTimes : u <= t

NextTime(t) == CHOOSE u \in GFTimes : u > t /\ \A w \in GFTimes : w > t => u <= w

\* The playback advances.
Tick ==
    /\ song_clock < LastTime
    /\ song_clock' = IF song_clock = 0 THEN CHOOSE t \in GFTimes : \A u \in GFTimes : t <= u
                     ELSE NextTime(song_clock)
    /\ UNCHANGED <<note_columns, note_cursors, judgement_counts, last_judgement,
                   nps_avg, accuracy_avg, game_lock, pc, inp, pl, result,
                   snapshot, scored, pre, note_locks, noteVars, bpsVars>>

\* chart_complete = game_field.poll(song_time, game_keys.held_keys)
TickPollAcquire(held) ==
    /\ song_clock \in GFTimes
    /\ PollAcquire(song_clock, held)

TickNext ==
    \/ Tick
    \/ PressCall
    \/ ReleaseCall
    \/ \E k \in Lanes, t \in GFTimes : PressAcquire(k, t)
    \/ \E k \in Lanes, t \in GFTimes : ReleaseAcquire(k, t)
    \/ PressNote
    \/ ReleaseNote
    \/ PressScore
    \/ ReleaseScore
    \/ PollCall
    \/ \E h \in HeldFlags : TickPollAcquire(h)
    \/ PollNote
    \/ PollScore
    \/ PollMetrics

\* Every thread that can take a step eventually takes one, a thread waiting
\* for the lock gets it if it is free again and again, and the song plays on.
TickFairness ==
    /\ WF_vars(Tick)
    /\ WF_vars(PollCall)
    /\ SF_vars(\E h \in HeldFlags : TickPollAcquire(h))
    /\ WF_vars(PollNote)
    /\ WF_vars(PollScore)
    /\ WF_vars(PollMetrics)
    /\ WF_vars(PressNote)
    /\ WF_vars(ReleaseNote)
    /\ WF_vars(PressScore)
    /\ WF_vars(ReleaseScore)

TickSpec == Init /\ [][TickNext]_vars /\ TickFairness

----------------------------------------------------------------------------
(* A longer session, for the 5 s window of poll's metrics: two taps early  *)
(* in the song, and a tap and a hold that are still ahead when the early   *)
(* ones leave the window.  Or a chart as read_notes hands it over for a    *)
(* row inside a warp: its note has the timing inf.                         *)

\* float("inf") as a timing: later than every song time by more than every
\* window, which is all that the notes and the GameField ask of a timing.
InfTiming == 1000000000

WindowChart ==
    << <<NewNote("Tap", 8000, 8000), NewNote("Tap", 10000, 10000),
         NewNote("Tap", 70000, 70000)>>,
       <<NewNote("Hold", 58000, 70000)>> >>

WindowTimes == {8200, 10000, 59000, 61000}

WindowInit ==
    /\ \E chart \in {WindowChart,
                      << <<NewNote("Tap", InfTiming, InfTiming),
                           NewNote("Tap", 8000, 8000)>> >>} : Session(chart)
    /\ NoNote
    /\ NoBpsLines

WindowNext ==
    \/ PressCall
    \/ \E k \in Lanes, t \in WindowTimes : PressAcquire(k, t)
    \/ PressNote
    \/ PressScore
    \/ PollCall
    \/ \E t \in WindowTimes, h \in HeldFlags : PollAcquire(t, h)
    \/ PollNote
    \/ PollScore
    \/ PollMetrics

WindowSpec == WindowInit /\ [][WindowNext]_vars

----------------------------------------------------------------------------
(* The session with the notes' own locks.  Each Note has a lock of its     *)
(* own (self.__lock); press and poll take it for their body, where they    *)
(* take it at all, and every getter of mutable state (judgement, accuracy, *)
(* last_held) takes it for its read.  The render thread reads the notes    *)
(* it draws through these getters, outside the scoreboard lock.            *)

\* Whether `call` on note n enters `with self.__lock`.  Tap.poll and the
\* Mine's press and poll test the time first; release does nothing.
NoteLockTaken(call, n, song_time, held) ==
    CASE call = "press" ->
            n.kind # "Mine" \/ Abs(song_time - n.timing) <= MineWindow
      [] call = "release" -> FALSE
      [] call = "poll" ->
            CASE n.kind = "Tap" -> song_time - n.timing > BooWindow
              [] n.kind = "Mine" ->
                    \/ song_time - n.timing > MineWindow
                    \/ held /\ Abs(song_time - n.timing) <= MineWindow
              [] OTHER -> TRUE

RECURSIVE WalkReads(_, _, _)
\* The notes whose accuracy the metrics walk of poll reads, in order, as
\* <<col_i, note_i>>, from column col_i at note_i on, up to the end or to
\* the column on which the walk raises.
WalkReads(col_i, note_i, song_time) ==
    IF col_i >= NumLanes THEN <<>>
    ELSE LET column == At(note_columns, col_i)
         IN  IF WalkRaises(column, At(note_cursors, col_i)) THEN <<>>
             ELSE IF note_i >= 0 /\ (song_time - MetricsWindow) < At(column, note_i).timing
             THEN << <<col_i, note_i>> >> \o WalkReads(col_i, note_i - 1, song_time)
             ELSE IF col_i + 1 >= NumLanes THEN <<>>
             ELSE WalkReads(col_i + 1,
                            Min(At(note_cursors, col_i + 1),
                                Len(At(note_columns, col_i + 1))),
                            song_time)

\* The note whose lock the thread's next statement asks for, as
\* <<col_i, note_i>>; <<>> when its next statement takes no note lock.
Callee(thread) ==
    IF /\ thread = "input"
       /\ pc["input"] \in {"press_note", "release_note"}
       /\ At(note_cursors, inp.key) < Len(At(note_columns, inp.key))
       /\ NoteLockTaken(IF pc["input"] = "press_note" THEN "press" ELSE "release",
                        At(At(note_columns, inp.key), At(note_cursors, inp.key)),
                        inp.time, FALSE)
    THEN <<inp.key, At(note_cursors, inp.key)>>
    ELSE IF /\ thread = "poller"
            /\ pc["poller"] = "poll_note"
            /\ pl.col_i < NumLanes
            /\ pl.checking
            /\ At(note_cursors, pl.col_i) < Len(At(note_columns, pl.col_i))
            /\ NoteLockTaken("poll",
                             At(At(note_columns, pl.col_i), At(note_cursors, pl.col_i)),
                             pl.time, At(pl.held, pl.col_i))
    THEN <<pl.col_i, At(note_cursors, pl.col_i)>>
    ELSE IF thread = "poller" /\ pc["poller"] = "poll_metrics" /\ NumLanes > 0
    THEN LET reads == WalkReads(0, Min(At(note_cursors, 0), Len(At(note_columns, 0))),
                                pl.time)
         IN  IF note_locks.walked < Len(reads) THEN reads[note_locks.walked + 1]
             ELSE <<>>
    ELSE <<>>

\* The notes whose lock the thread is inside.
Held(thread) ==
    { p \in UNION { {c} \X (0 .. (Len(At(note_columns, c)) - 1)) : c \in Lanes } :
         At(At(note_locks.owner, p[1]), p[2]) = thread }

\* The thread's next statement is not one that waits for a note's lock.
MayCall(thread) ==
    \/ Callee(thread) = <<>>
    \/ Callee(thread) \in Held(thread)

\* `with self.__lock:` entered on note p.
NoteLock(thread, p) ==
    /\ At(At(note_locks.owner, p[1]), p[2]) = "free"
    /\ note_locks' = [note_locks EXCEPT !.owner[p[1] + 1][p[2] + 1] = thread]
    /\ UNCHANGED <<note_columns, note_cursors, judgement_counts, last_judgement,
                   nps_avg, accuracy_avg, game_lock, pc, inp, pl, result,
                   snapshot, scored, pre, song_clock, noteVars, bpsVars>>

\* The `with self.__lock:` block left, once the call made under it is
\* done; a getter's read is its whole block.
NoteUnlock(thread) ==
    /\ \/ thread = "input" /\ pc["input"] \in {"press_score", "release_score"}
       \/ thread = "poller" /\ pc["poller"] \in {"poll_score", "poll_metrics"}
       \/ thread = "render"
    /\ \E p \in Held(thread) :
          note_locks' = [note_locks EXCEPT
                            !.owner[p[1] + 1][p[2] + 1] = "free",
                            !.walked = IF thread = "poller" /\ pc["poller"] = "poll_metrics"
                                       THEN @ + 1 ELSE @]
    /\ UNCHANGED <<note_columns, note_cursors, judgement_counts, last_judgement,
                   nps_avg, accuracy_avg, game_lock, pc, inp, pl, result,
                   snapshot, scored, pre, song_clock, noteVars, bpsVars>>

\* The walk is through: the metrics are published and poll returns, or
\* the walk raises.
WalkReturn ==
    /\ MayCall("poller")
    /\ Held("poller") = {}
    /\ PollMetricsBody
    /\ note_locks' = [note_locks EXCEPT !.walked = 0]
    /\ UNCHANGED <<song_clock, noteVars, bpsVars>>

\* The render loop asks for the metrics between its reads of notes.
RenderMetricsCallHolding == MetricsCall

RenderMetricsCall ==
    /\ Held("render") = {}
    /\ MetricsCall

LockTimes == {10000, 30000}

LockInit ==
    /\ Session(<< <<NewNote("Tap", 10000, 10000), NewNote("Hold", 20000, 30000)>> >>)
    /\ NoNote
    /\ NoBpsLines

LockNext ==
    \/ PressCall
    \/ ReleaseCall
    \/ \E k \in Lanes, t \in LockTimes : PressAcquire(k, t)
    \/ \E k \in Lanes, t \in LockTimes : ReleaseAcquire(k, t)
    \/ Callee("input") # <<>> /\ NoteLock("input", Callee("input"))
    \/ MayCall("input") /\ PressNote
    \/ MayCall("input") /\ ReleaseNote
    \/ NoteUnlock("input")
    \/ Held("input") = {} /\ PressScore
    \/ Held("input") = {} /\ ReleaseScore
    \/ PollCall
    \/ \E t \in LockTimes, h \in HeldFlags : PollAcquire(t, h)
    \/ Callee("poller") # <<>> /\ NoteLock("poller", Callee("poller"))
    \/ MayCall("poller") /\ PollNote
    \/ NoteUnlock("poller")
    \/ Held("poller") = {} /\ PollScore
    \/ WalkReturn
    \/ RenderMetricsCall
    \/ MetricsAcquire
    \/ MetricsReturn(FALSE)
    \/ \E c \in Lanes : \E i \in 0 .. (Len(At(note_columns, c)) - 1) :
          /\ pc["render"] = "idle"
          /\ Held("render") = {}
          /\ NoteLock("render", <<c, i>>)
    \/ NoteUnlock("render")

\* Fair scheduling: a thread that can take a step takes one, and a thread
\* waiting for a lock gets it if the lock is free again and again.
LockFairness ==
    /\ WF_vars(MayCall("input") /\ PressNote)
    /\ WF_vars(MayCall("input") /\ ReleaseNote)
    /\ WF_vars(Held("input") = {} /\ PressScore)
    /\ WF_vars(Held("input") = {} /\ ReleaseScore)
    /\ WF_vars(MayCall("poller") /\ PollNote)
    /\ WF_vars(Held("poller") = {} /\ PollScore)
    /\ WF_vars(WalkReturn)
    /\ WF_vars(MetricsReturn(FALSE))
    /\ \A thread \in Threads : WF_vars(NoteUnlock(thread))
    /\ SF_vars(\E k \in Lanes, t \in LockTimes : PressAcquire(k, t))
    /\ SF_vars(\E k \in Lanes, t \in LockTimes : ReleaseAcquire(k, t))
    /\ SF_vars(\E t \in LockTimes, h \in HeldFlags : PollAcquire(t, h))
    /\ SF_vars(MetricsAcquire)
    /\ \A thread \in {"input", "poller"} :
          SF_vars(Callee(thread) # <<>> /\ NoteLock(thread, Callee(thread)))

LockSpec == LockInit /\ [][LockNext]_vars /\ LockFairness

----------------------------------------------------------------------------
(* One note, called directly: the Note interface without a GameField.      *)

NoteKinds == {"Tap", "Hold", "Roll", "Mine"}

\* The song times of the calls.
\* Negative song times come from a negative audio offset (src/main.py:104).
TapTimes == {-1000, -500, 2500, 8000, 10000, 10200, 10450, 10900, 11350, 12000}

HoldTimes == {-1000, -500, 2500, 8000, 10000, 12000, 20000, 30000}

\* The song times of the calls on a note of a kind: around the judgement
\* windows for taps and mines, along the body for holds and rolls.
NoteTimes(kind) == IF kind \in {"Hold", "Roll"} THEN HoldTimes ELSE TapTimes

\* Head timings: 1.0 s, and 0.1 s, which a press before song time 0 can hit.
NoteTimings == {1000, 10000}

NoteInit ==
    /\ Session(<<>>)
    /\ NoBpsLines
    /\ \E kind \in NoteKinds, timing \in NoteTimings :
          note = NewNote(kind, timing, IF kind \in {"Hold", "Roll"} THEN 30000 ELSE timing)
    /\ note_ret = None
    /\ note_log = NoCall

\* The call `op` at song_time, with outcome r, and what it adds to the
\* history: a press at or after timing - 0.18 is one holds and rolls take.
NoteCall(op, song_time, held, r) ==
    /\ note' = r.note
    /\ note_ret' = r.ret
    /\ note_log' =
          [op |-> op, time |-> song_time, held |-> held,
           last_press |-> IF op = "press" /\ song_time - note.timing >= -BooWindow
                          THEN <<song_time>> ELSE note_log.last_press,
           early |-> note_log.early
                        \/ (op = "press" /\ song_time - note.timing < -BooWindow),
           press_scored |-> note_log.press_scored \/ (op = "press" /\ r.ret # None)]
    /\ UNCHANGED <<gfVars, bpsVars>>

NoteNext ==
    \/ \E t \in NoteTimes(note.kind) :
          NoteCall("press", t, FALSE, NotePress(note, t))
    \/ \E t \in NoteTimes(note.kind) :
          NoteCall("release", t, FALSE, NoteRelease(note, t))
    \/ \E t \in NoteTimes(note.kind), held \in BOOLEAN :
          NoteCall("poll", t, held, NotePoll(note, t, held))

NoteSpec == NoteInit /\ [][NoteNext]_vars

----------------------------------------------------------------------------
(* Numbers of src/bps_lines.py.  A Python float is modelled as an exact    *)
(* fraction <<n, d>> in lowest terms with d > 0; <<1, 0>> is inf,          *)
(* <<-1, 0>> is -inf and <<0, 0>> is nan.  Rounding is not modelled.       *)

Sign(n) == IF n > 0 THEN 1 ELSE IF n < 0 THEN -1 ELSE 0

RECURSIVE GCD(_, _)
GCD(a, b) == IF b = 0 THEN a ELSE GCD(b, a % b)

Norm(n, d) ==
    IF d = 0 THEN <<Sign(n), 0>>
    ELSE LET g == GCD(Abs(n), Abs(d))
         IN  <<(Sign(d) * n) \div g, Abs(d) \div g>>

Q(n) == <<n, 1>>

QInf == <<1, 0>>

QNaN == <<0, 0>>

IsNaN(x) == x = QNaN

\* math.isinf
IsInf(x) == x[2] = 0 /\ x[1] # 0

IsZero(x) == x[2] # 0 /\ x[1] = 0

QNeg(x) == <<-x[1], x[2]>>

QAdd(x, y) ==
    IF IsNaN(x) \/ IsNaN(y) THEN QNaN
    ELSE IF IsInf(x) THEN (IF IsInf(y) /\ y # x THEN QNaN ELSE x)
    ELSE IF IsInf(y) THEN y
    ELSE Norm(x[1] * y[2] + y[1] * x[2], x[2] * y[2])

QSub(x, y) == QAdd(x, QNeg(y))

QMul(x, y) ==
    IF IsNaN(x) \/ IsNaN(y) THEN QNaN
    ELSE IF IsInf(x) \/ IsInf(y)
         THEN <<Sign(x[1]) * Sign(y[1]), 0>>
         ELSE Norm(x[1] * y[1], x[2] * y[2])

\* x / y for y # 0 (Python raises ZeroDivisionError for y = 0: the callers
\* test for it).
QDiv(x, y) ==
    IF IsNaN(x) \/ IsNaN(y) THEN QNaN
    ELSE IF IsInf(y) THEN (IF IsInf(x) THEN QNaN ELSE Q(0))
    ELSE IF IsInf(x) THEN <<Sign(x[1]) * Sign(y[1]), 0>>
    ELSE Norm(x[1] * y[2], x[2] * y[1])

QLt(x, y) ==
    IF IsNaN(x) \/ IsNaN(y) THEN FALSE
    ELSE IF x[2] = 0 /\ y[2] = 0 THEN x[1] < y[1]
    ELSE x[1] * y[2] < y[1] * x[2]

QLe(x, y) == ~IsNaN(x) /\ ~IsNaN(y) /\ ~QLt(y, x)

\* ==; fractions are kept in lowest terms, and nan equals nothing.
QEq(x, y) == ~IsNaN(x) /\ x = y

----------------------------------------------------------------------------
(* BPSLines.  A line is the tuple <<start_time, start_beat, bps>>.         *)

RECURSIVE SkipWarped(_, _, _)
\* while i+1 < len(lines) and lines[i+1][0] < resume_time: i += 1
SkipWarped(lines, i, resume_time) ==
    IF i + 1 <= Len(lines) /\ QLt(lines[i + 1][1], resume_time)
    THEN SkipWarped(lines, i + 1, resume_time)
    ELSE i

RECURSIVE RegulariseFrom(_, _)
\* The outer loop of __regularise_lines from (1-based) index i on.
RegulariseFrom(lines, i) ==
    IF i > Len(lines) THEN <<>>
    ELSE IF i + 1 <= Len(lines) /\ QLt(lines[i + 1][1], lines[i][1])
    THEN LET resume_time == lines[i][1]
             old_beat == lines[i][2]
             j == SkipWarped(lines, i, resume_time)
         IN  IF j <= Len(lines)
             THEN LET curr_time == lines[j][1]
                      curr_beat == lines[j][2]
                      curr_bps == lines[j][3]
                      new_start_beat ==
                          QAdd(QMul(curr_bps, QSub(resume_time, curr_time)), curr_beat)
                  IN  << <<resume_time, old_beat, QInf>>,
                         <<resume_time, new_start_beat, curr_bps>> >>
                      \o RegulariseFrom(lines, j + 1)
             ELSE RegulariseFrom(lines, j)
    ELSE <<lines[i]>> \o RegulariseFrom(lines, i + 1)

\* The regularisation pass left out.
RegulariseLinesOff(lines) == lines

RegulariseLines(lines) == RegulariseFrom(lines, 1)

\* ---- init_beat_bpms ----

\* The fast-fail checks, in order; "ok" when none fires.  bpm_changes[0] of
\* an empty list raises IndexError in the last check.
ValidateBpms(bpm_changes) ==
    IF \E i \in 1 .. (Len(bpm_changes) - 1) :
           bpm_changes[i][1] >= bpm_changes[i + 1][1]
    THEN "ValueError"
    ELSE IF \E i \in 1 .. Len(bpm_changes) : bpm_changes[i][2] = 0
    THEN "ValueError"
    ELSE IF bpm_changes = <<>> THEN "IndexError"
    ELSE IF bpm_changes[1][1] # 0 THEN "ValueError"
    ELSE "ok"

RECURSIVE StitchLines(_, _)
\* The end-to-end stitching loop: raw_bps_lines after bpm_changes[1:] has
\* been appended to `raw`.
StitchLines(raw, rest) ==
    IF rest = <<>> THEN raw
    ELSE LET prev == raw[Len(raw)]
             line_beat == Q(Head(rest)[1])
             line_bpm == Head(rest)[2]
         IN  StitchLines(
                 Append(raw, <<QAdd(QDiv(QSub(line_beat, prev[2]), prev[3]), prev[1]),
                               line_beat,
                               Norm(line_bpm, 60)>>),
                 Tail(rest))

RawBpsLines(bpm_changes) ==
    StitchLines(<< <<Q(0), Q(0), Norm(bpm_changes[1][2], 60)>> >>, Tail(bpm_changes))

\* The call emptying the map before it validates its input.
InitBeatBpmsClearsFirst(lines, bpm_changes) ==
    LET v == ValidateBpms(bpm_changes)
    IN  IF v # "ok"
        THEN [outcome |-> v, lines |-> <<>>]
        ELSE LET new_lines == RegulariseLines(RawBpsLines(bpm_changes))
             IN  IF Len(new_lines) = 0
                 THEN [outcome |-> "ValueError", lines |-> <<>>]
                 ELSE [outcome |-> "ok", lines |-> new_lines]

\* The call's outcome and the lines stored after it.
InitBeatBpmsResult(lines, bpm_changes) ==
    LET v == ValidateBpms(bpm_changes)
    IN  IF v # "ok"
        THEN [outcome |-> v, lines |-> lines]
        ELSE LET new_lines == RegulariseLines(RawBpsLines(bpm_changes))
             IN  IF Len(new_lines) = 0
                 THEN [outcome |-> "ValueError", lines |-> lines]
                 ELSE [outcome |-> "ok", lines |-> new_lines]

init_beat_bpms(bpm_changes) ==
    LET r == InitBeatBpmsResult(bps_lines, bpm_changes)
    IN  /\ bps_lines' = r.lines
        /\ bps_outcome' = r.outcome
        /\ stops_added' = IF r.outcome = "ok" THEN 0 ELSE stops_added
        /\ query' = NoQuery
        /\ UNCHANGED <<gfVars, noteVars>>

\* ---- add_beat_stops ----

RECURSIVE MaxQ(_)
\* max() of a non-empty sequence of numbers
MaxQ(xs) ==
    IF Len(xs) = 1 THEN xs[1]
    ELSE LET m == MaxQ(Tail(xs))
         IN  IF QLt(xs[1], m) THEN m ELSE xs[1]

StopBeatsOf(stops) == [i \in 1 .. Len(stops) |-> Q(stops[i][1])]

StartBeatsOf(lines) == [i \in 1 .. Len(lines) |-> lines[i][2]]

\* The validation at the top; lines[-1] of an empty map raises IndexError
\* and max() of an empty stop list raises ValueError.
ValidateStops(lines, stops) ==
    IF lines = <<>> THEN "IndexError"
    ELSE IF QLe(lines[Len(lines)][3], Q(0))
         THEN IF stops = <<>> THEN "ValueError"
              ELSE IF QLt(MaxQ(StartBeatsOf(lines)), MaxQ(StopBeatsOf(stops)))
                   THEN "ValueError"
                   ELSE "ok"
         ELSE "ok"

RECURSIVE InsertStopDesc(_, _)
\* One step of sorted(stops, key=lambda x: x[0], reverse=True), which is
\* stable: a stop goes after those of equal or greater beat.
InsertStopDesc(sorted_stops, stop) ==
    IF sorted_stops = <<>> THEN <<stop>>
    ELSE IF Head(sorted_stops)[1] >= stop[1]
         THEN <<Head(sorted_stops)>> \o InsertStopDesc(Tail(sorted_stops), stop)
         ELSE <<stop>> \o sorted_stops

RECURSIVE SortStopsDesc(_)
SortStopsDesc(stops) ==
    IF stops = <<>> THEN <<>>
    ELSE InsertStopDesc(SortStopsDesc(SubSeq(stops, 1, Len(stops) - 1)),
                        stops[Len(stops)])

\* The loop that builds stops_stack.  last_beat starts as -1 and is then
\* assigned the whole stop tuple (`last_beat = stop`), which no beat equals:
\* only a first stop of beat -1 is left out.
StopsStack(stops) ==
    LET sorted_stops == SortStopsDesc(stops)
    IN  IF sorted_stops # <<>> /\ sorted_stops[1][1] = -1
        THEN Tail(sorted_stops)
        ELSE sorted_stops

RECURSIVE SplitStopsNoResume(_, _, _)
\* The splitting loop with the line that resumes after the stop left out.
SplitStopsNoResume(st, line, line_end_beat) ==
    IF st.err = "ok" /\ Len(st.stack) > 0
       /\ QLt(Q(st.stack[Len(st.stack)][1]), line_end_beat)
    THEN LET new_beat == Q(st.stack[Len(st.stack)][1])
             stop_duration == Q(st.stack[Len(st.stack)][2])
             popped == SubSeq(st.stack, 1, Len(st.stack) - 1)
             line_time == line[1]
             line_beat == line[2]
             line_bps == line[3]
         IN  IF ~IsInf(line_bps) /\ IsZero(line_bps)
             THEN [st EXCEPT !.err = "ZeroDivisionError", !.stack = popped]
             ELSE LET new_time == IF IsInf(line_bps) THEN line_time
                                  ELSE QAdd(QDiv(QSub(new_beat, line_beat), line_bps),
                                            line_time)
                      off2 == QAdd(st.off, stop_duration)
                  IN  SplitStopsNoResume(
                          [st EXCEPT
                              !.stack = popped,
                              !.off = off2,
                              !.lines = @ \o << <<QAdd(new_time, st.off), new_beat, Q(0)>> >>],
                          line, line_end_beat)
    ELSE st

\* The state of the building loop: the lines built so far, the stack (its
\* top is its last element), the running offset and the exception raised.
RECURSIVE SplitStops(_, _, _)
\* while len(stops_stack) > 0 and line_end_beat > stops_stack[-1][0]
SplitStops(st, line, line_end_beat) ==
    IF st.err = "ok" /\ Len(st.stack) > 0
       /\ QLt(Q(st.stack[Len(st.stack)][1]), line_end_beat)
    THEN LET new_beat == Q(st.stack[Len(st.stack)][1])
             stop_duration == Q(st.stack[Len(st.stack)][2])
             popped == SubSeq(st.stack, 1, Len(st.stack) - 1)
             line_time == line[1]
             line_beat == line[2]
             line_bps == line[3]
         IN  IF ~IsInf(line_bps) /\ IsZero(line_bps)
             THEN [st EXCEPT !.err = "ZeroDivisionError", !.stack = popped]
             ELSE LET new_time == IF IsInf(line_bps) THEN line_time
                                  ELSE QAdd(QDiv(QSub(new_beat, line_beat), line_bps),
                                            line_time)
                      off2 == QAdd(st.off, stop_duration)
                  IN  SplitStops(
                          [st EXCEPT
                              !.stack = popped,
                              !.off = off2,
                              !.lines = @ \o << <<QAdd(new_time, st.off), new_beat, Q(0)>>,
                                                 <<QAdd(new_time, off2), new_beat, line_bps>> >>],
                          line, line_end_beat)
    ELSE st

RECURSIVE BuildStopsBoundaryUnshifted(_, _, _)
\* The loop with a stop on a line boundary bridged but not added to the
\* running offset.
BuildStopsBoundaryUnshifted(lines, line_i, st) ==
    IF line_i > Len(lines) \/ st.err # "ok" THEN st
    ELSE LET line == lines[line_i]
             last == line_i = Len(lines)
             line_end_time == IF last THEN QNaN ELSE lines[line_i + 1][1]
             line_end_beat == IF last THEN QInf ELSE lines[line_i + 1][2]
             st1 == [st EXCEPT !.lines =
                        Append(@, <<QAdd(line[1], st.off), line[2], line[3]>>)]
             st2 == SplitStops(st1, line, line_end_beat)
             st3 == IF st2.err = "ok" /\ Len(st2.stack) > 0
                       /\ QEq(line_end_beat, Q(st2.stack[Len(st2.stack)][1]))
                    THEN [st2 EXCEPT
                             !.lines = Append(@, <<QAdd(line_end_time, st2.off),
                                                   line_end_beat, Q(0)>>),
                             !.stack = SubSeq(@, 1, Len(@) - 1)]
                    ELSE st2
         IN  BuildStopsBoundaryUnshifted(lines, line_i + 1, st3)

RECURSIVE BuildStops(_, _, _)
\* for line_i in range(len(self.__bps_lines)), from (1-based) line_i on
BuildStops(lines, line_i, st) ==
    IF line_i > Len(lines) \/ st.err # "ok" THEN st
    ELSE LET line == lines[line_i]
             last == line_i = Len(lines)
             line_end_time == IF last THEN QNaN ELSE lines[line_i + 1][1]
             line_end_beat == IF last THEN QInf ELSE lines[line_i + 1][2]
             st1 == [st EXCEPT !.lines =
                        Append(@, <<QAdd(line[1], st.off), line[2], line[3]>>)]
             st2 == SplitStops(st1, line, line_end_beat)
             st3 == IF st2.err = "ok" /\ Len(st2.stack) > 0
                       /\ QEq(line_end_beat, Q(st2.stack[Len(st2.stack)][1]))
                    THEN [st2 EXCEPT
                             !.lines = Append(@, <<QAdd(line_end_time, st2.off),
                                                   line_end_beat, Q(0)>>),
                             !.off = QAdd(@, Q(st2.stack[Len(st2.stack)][2])),
                             !.stack = SubSeq(@, 1, Len(@) - 1)]
                    ELSE st2
         IN  BuildStops(lines, line_i + 1, st3)

\* The call's outcome and the lines stored after it.
AddBeatStopsResult(lines, stops) ==
    LET v == ValidateStops(lines, stops)
    IN  IF v # "ok"
        THEN [outcome |-> v, lines |-> lines]
        ELSE LET st == BuildStops(lines, 1,
                           [lines |-> <<>>, stack |-> StopsStack(stops),
                            off |-> Q(0), err |-> "ok"])
             IN  IF st.err # "ok"
                 THEN [outcome |-> st.err, lines |-> lines]
                 ELSE LET regular_lines == RegulariseLines(st.lines)
                      IN  IF Len(regular_lines) = 0
                          THEN [outcome |-> "ValueError", lines |-> lines]
                          ELSE [outcome |-> "ok", lines |-> regular_lines]

add_beat_stops(stops) ==
    LET r == AddBeatStopsResult(bps_lines, stops)
    IN  /\ bps_lines' = r.lines
        /\ bps_outcome' = r.outcome
        /\ stops_added' = stops_added + Len(stops)
        /\ query' = NoQuery
        /\ UNCHANGED <<gfVars, noteVars>>

\* ---- beat_at_time / time_at_beat ----

\* The search written with `if` for `while`: at most one line forward.
SeekTimeOneStep(lines, line_cursor, song_time) ==
    IF line_cursor + 1 < Len(lines) /\ QLt(lines[line_cursor + 2][1], song_time)
    THEN line_cursor + 1
    ELSE line_cursor

RECURSIVE SeekTimeOvershoots(_, _, _)
\* The search stepping onto a line that starts exactly at song_time.
SeekTimeOvershoots(lines, line_cursor, song_time) ==
    IF line_cursor + 1 < Len(lines) /\ QLe(lines[line_cursor + 2][1], song_time)
    THEN SeekTimeOvershoots(lines, line_cursor + 1, song_time)
    ELSE line_cursor

RECURSIVE SeekTime(_, _, _)
\* while line_cursor + 1 < len(lines) and lines[line_cursor + 1][0] < song_time
\* (line_cursor is 0-based, as in the code)
SeekTime(lines, line_cursor, song_time) ==
    IF line_cursor + 1 < Len(lines) /\ QLt(lines[line_cursor + 2][1], song_time)
    THEN SeekTime(lines, line_cursor + 1, song_time)
    ELSE line_cursor

RECURSIVE SeekBeatPastEnd(_, _, _)
\* The search allowed to step off the last line.
SeekBeatPastEnd(lines, line_cursor, beat) ==
    IF line_cursor < Len(lines) /\ QLt(lines[line_cursor + 1][2], beat)
    THEN SeekBeatPastEnd(lines, line_cursor + 1, beat)
    ELSE line_cursor

RECURSIVE SeekBeat(_, _, _)
\* while line_cursor + 1 < len(lines) and lines[line_cursor + 1][1] < beat
SeekBeat(lines, line_cursor, beat) ==
    IF line_cursor + 1 < Len(lines) /\ QLt(lines[line_cursor + 2][2], beat)
    THEN SeekBeat(lines, line_cursor + 1, beat)
    ELSE line_cursor

\* A query's outcome: the value and the line index returned, and the bps of
\* the line it was solved on.
Found(value, line_cursor, bps) ==
    [outcome |-> "ok", value |-> value, cursor |-> line_cursor, bps |-> bps]

\* self.__bps_lines[line_cursor] with line_cursor beyond the last line
QueryRaises == [outcome |-> "IndexError", value |-> QNaN, cursor |-> 0, bps |-> QNaN]

BeatAtTime(lines, song_time, last_line_index, allow_stop, allow_warp) ==
    LET line_cursor == SeekTime(lines, last_line_index, song_time)
    IN  IF line_cursor >= Len(lines) THEN QueryRaises
        ELSE LET line_time == lines[line_cursor + 1][1]
                 line_beat == lines[line_cursor + 1][2]
                 bps == lines[line_cursor + 1][3]
             IN  IF IsZero(bps)
                 THEN Found(IF allow_stop THEN line_beat ELSE QInf, line_cursor, bps)
                 ELSE IF IsInf(bps)
                 THEN Found(IF allow_warp THEN line_beat ELSE QInf, line_cursor, bps)
                 ELSE Found(QAdd(QMul(bps, QSub(song_time, line_time)), line_beat),
                            line_cursor, bps)

\* Warps answered whether or not the caller allows them.
TimeAtBeatWarpsAllowed(lines, beat, last_line_index, allow_stop, allow_warp) ==
    LET line_cursor == SeekBeat(lines, last_line_index, beat)
    IN  IF line_cursor >= Len(lines) THEN QueryRaises
        ELSE LET line_time == lines[line_cursor + 1][1]
                 line_beat == lines[line_cursor + 1][2]
                 bps == lines[line_cursor + 1][3]
             IN  IF IsZero(bps)
                 THEN Found(IF allow_stop THEN line_time ELSE QInf, line_cursor, bps)
                 ELSE IF IsInf(bps)
                 THEN Found(line_time, line_cursor, bps)
                 ELSE Found(QAdd(QDiv(QSub(beat, line_beat), bps), line_time),
                            line_cursor, bps)

\* The first test after the search, `line_cursor >= len(self.__bps_lines)
\* and line_bps <= 0 and ...`, is false whenever the line above it has not
\* raised, so its other operands are never evaluated.
TimeAtBeat(lines, beat, last_line_index, allow_stop, allow_warp) ==
    LET line_cursor == SeekBeat(lines, last_line_index, beat)
    IN  IF line_cursor >= Len(lines) THEN QueryRaises
        ELSE LET line_time == lines[line_cursor + 1][1]
                 line_beat == lines[line_cursor + 1][2]
                 bps == lines[line_cursor + 1][3]
             IN  IF IsZero(bps)
                 THEN Found(IF allow_stop THEN line_time ELSE QInf, line_cursor, bps)
                 ELSE IF IsInf(bps)
                 THEN Found(IF allow_warp THEN line_time ELSE QInf, line_cursor, bps)
                 ELSE Found(QAdd(QDiv(QSub(beat, line_beat), bps), line_time),
                            line_cursor, bps)

\* A call and what it returned.  `from` is <<>>, or holds the beat_at_time
\* call whose value is this call's argument.
Asked(op, arg, from, last_line_index, allow_stop, allow_warp, r) ==
    [op |-> op, arg |-> arg, from |-> from, hint |-> last_line_index,
     allow_stop |-> allow_stop, allow_warp |-> allow_warp,
     outcome |-> r.outcome, value |-> r.value, cursor |-> r.cursor, bps |-> r.bps]

beat_at_time(song_time, last_line_index, allow_stop, allow_warp) ==
    /\ query' = Asked("beat_at_time", song_time, <<>>, last_line_index, allow_stop,
                      allow_warp,
                      BeatAtTime(bps_lines, song_time, last_line_index,
                                 allow_stop, allow_warp))
    /\ UNCHANGED <<bps_lines, bps_outcome, stops_added, gfVars, noteVars>>

time_at_beat(beat, from, last_line_index, allow_stop, allow_warp) ==
    /\ query' = Asked("time_at_beat", beat, from, last_line_index, allow_stop,
                      allow_warp,
                      TimeAtBeat(bps_lines, beat, last_line_index,
                                 allow_stop, allow_warp))
    /\ UNCHANGED <<bps_lines, bps_outcome, stops_added, gfVars, noteVars>>

----------------------------------------------------------------------------
(* Chart loading: a map is constructed from tempo data and then extended  *)
(* with stop data.                                                         *)

MaxBpmChanges == 3
MaxStopsAdded == 2

\* The beats of a tempo list: a prefix of one of these.  The first is as
\* the format requires, the others are not ascending or do not start at 0.
BeatPatterns == { [i \in 1 .. MaxBpmChanges |-> 4 * (i - 1)],
                  [i \in 1 .. MaxBpmChanges |-> IF i = 1 THEN 0 ELSE 4 * (5 - i)],
                  [i \in 1 .. MaxBpmChanges |-> 4 * i] }

Bpms == {-120, 0, 60, 120}

StopBeats == {0, 4, 6}

\* Stop durations, in seconds.
StopDurations == {-2, 1}

\* The tempo list of the module's own test: 180, 240, -180 and 120 BPM.
TestBpms == << <<0, 180>>, <<6, 240>>, <<14, -180>>, <<20, 120>> >>

BpmInputs ==
    UNION { { [i \in 1 .. k |-> <<beats[i], bpms[i]>>] : bpms \in [1 .. k -> Bpms] }
            : <<beats, k>> \in BeatPatterns \X (0 .. MaxBpmChanges) }
        \cup {TestBpms}

StopInputs(n) == UNION { [1 .. k -> StopBeats \X StopDurations] : k \in 0 .. n }

BpsInit ==
    /\ Session(<<>>)
    /\ NoNote
    /\ NoBpsLines

BpsNext ==
    \/ \E bpm_changes \in BpmInputs :
          /\ stops_added = 0
          /\ init_beat_bpms(bpm_changes)
          /\ UNCHANGED bps_call
    \/ \E stops \in StopInputs(MaxStopsAdded - stops_added) :
          /\ add_beat_stops(stops)
          /\ UNCHANGED bps_call

BpsSpec == BpsInit /\ [][BpsNext]_vars

----------------------------------------------------------------------------
(* Lookups on the map: the beat at a song time, as the game loop asks each *)
(* frame, and the time at a beat.                                          *)

\* Song times, in seconds, and beats asked for.
QueryTimes == {-1, 0, 2, 3, 4, 5, 7}

QueryBeats == {-2, 0, 3, 4, 6, 8, 10, 14, 16}

\* last_line_index: the start, or a cached line.
QueryHints == {0, 1, 2}

\* A lookup leaves the map as it is, so what it returns does not depend on
\* the lookups before it: each behaviour builds a map, asks one question,
\* and may ask for the time at the beat it was given.
QueryNext ==
    \/ \E bpm_changes \in BpmInputs :
          /\ stops_added = 0
          /\ query = NoQuery
          /\ init_beat_bpms(bpm_changes)
          /\ UNCHANGED bps_call
    \/ \E stops \in StopInputs(1) :
          /\ stops_added = 0
          /\ query = NoQuery
          /\ add_beat_stops(stops)
          /\ UNCHANGED bps_call
    \/ \E t \in QueryTimes, hint \in QueryHints, allow_stop, allow_warp \in BOOLEAN :
          /\ query = NoQuery
          /\ beat_at_time(Q(t), hint, allow_stop, allow_warp)
          /\ UNCHANGED bps_call
    \/ \E b \in QueryBeats, hint \in QueryHints, allow_stop, allow_warp \in BOOLEAN :
          /\ query = NoQuery
          /\ time_at_beat(Q(b), <<>>, hint, allow_stop, allow_warp)
          /\ UNCHANGED bps_call
    \/ /\ query.op = "beat_at_time"
       /\ query.outcome = "ok"
       /\ time_at_beat(query.value, <<query>>, query.hint, query.allow_stop,
                       query.allow_warp)
       /\ UNCHANGED bps_call

QuerySpec == BpsInit /\ [][QueryNext]_vars

\* A reader that moves forward through the chart and hands each returned
\* line index to its next lookup: read_notes asks the time of each row's
\* beat (allow_stop only), the game loop the beat of each frame's time.
ReadNext ==
    \/ \E bpm_changes \in BpmInputs :
          /\ stops_added = 0
          /\ query = NoQuery
          /\ init_beat_bpms(bpm_changes)
          /\ UNCHANGED bps_call
    \/ \E stops \in StopInputs(1) :
          /\ stops_added = 0
          /\ query = NoQuery
          /\ add_beat_stops(stops)
          /\ UNCHANGED bps_call
    \/ \E b \in QueryBeats :
          /\ query = NoQuery
          /\ time_at_beat(Q(b), <<>>, 0, TRUE, FALSE)
          /\ UNCHANGED bps_call
    \/ \E b \in QueryBeats :
          /\ query # NoQuery
          /\ query.op = "time_at_beat"
          /\ query.outcome = "ok"
          /\ QLe(query.arg, Q(b))
          /\ time_at_beat(Q(b), <<>>, query.cursor, TRUE, FALSE)
          /\ UNCHANGED bps_call
    \/ \E t \in QueryTimes :
          /\ query = NoQuery
          /\ beat_at_time(Q(t), 0, TRUE, TRUE)
          /\ UNCHANGED bps_call
    \/ \E t \in QueryTimes :
          /\ query # NoQuery
          /\ query.op = "beat_at_time"
          /\ query.outcome = "ok"
          /\ QLe(query.arg, Q(t))
          /\ beat_at_time(Q(t), query.cursor, TRUE, TRUE)
          /\ UNCHANGED bps_call

ReadSpec == BpsInit /\ [][ReadNext]_vars

\* What the test expects init_beat_bpms to store for TestBpms.
TestLines == << <<Q(0), Q(0), Q(3)>>, <<Q(2), Q(6), Q(4)>>,
               <<Q(4), Q(14), QInf>>, <<Q(4), Q(24), Q(2)>> >>

\* The maps init_beat_bpms stores for the tempo lists it accepts.
BuiltMaps ==
    { InitBeatBpmsResult(<<>>, bpm_changes).lines :
          bpm_changes \in { c \in BpmInputs :
                               InitBeatBpmsResult(<<>>, c).outcome = "ok" } }

----------------------------------------------------------------------------
(* A loader building one map: init_beat_bpms on a new BPSLines, then       *)
(* add_beat_stops, as read_bps_lines does, and add_beat_stops again, as    *)
(* the module's test does.  A call that raises ends the loading.  bps_call *)
(* keeps the last call, its argument and the lines it found.               *)

MaxStopCalls == 2

CallBeats == {0, 4, 6}

\* Stop durations, in seconds.
CallDurations == {-2, 0, 1, 2}

\* One stop.
SingleStops == { <<stop>> : stop \in CallBeats \X CallDurations }

\* A positive stop and, at a later beat, the equal negative one.
CancellingStops ==
    { << <<b1, d>>, <<b2, 0 - d>> >> :
          <<b1, b2, d>> \in { x \in CallBeats \X CallBeats \X {1, 2} : x[1] < x[2] } }

\* Two stops on one beat.
DuplicateStops ==
    { << <<b, d1>>, <<b, d2>> >> : <<b, d1, d2>> \in CallBeats \X {1, 2} \X {1, 2} }

\* The stops of the module's test: the cancelling pair, then the shift.
TestStops == << <<24, 2>>, <<26, -2>> >>

TestShift == << <<0, 2>> >>

\* Every list above, and one whose first stop is at a beat below 0.
FirstStops ==
    {<<>>, TestStops, << <<-2, 1>>, <<4, 1>> >>}
       \cup SingleStops \cup CancellingStops \cup DuplicateStops

LaterStops == {TestShift} \cup { <<stop>> : stop \in CallBeats \X {0} }

Called(op, arg, stop_calls) ==
    [op |-> op, arg |-> arg, before |-> bps_lines, stop_calls |-> stop_calls]

CallNext ==
    \/ \E bpm_changes \in BpmInputs :
          /\ bps_call = NoBpsCall
          /\ init_beat_bpms(bpm_changes)
          /\ bps_call' = Called("init_beat_bpms", bpm_changes, 0)
    \/ \E stops \in FirstStops \cup LaterStops :
          /\ bps_call # NoBpsCall
          /\ bps_outcome = "ok"
          /\ bps_call.stop_calls < MaxStopCalls
          /\ stops \in IF bps_call.stop_calls = 0 THEN FirstStops ELSE LaterStops
          /\ add_beat_stops(stops)
          /\ bps_call' = Called("add_beat_stops", stops, bps_call.stop_calls + 1)

CallSpec == BpsInit /\ [][CallNext]_vars

\* Song times, in seconds, and beats looked up before and after a call.
CallTimes == -1 .. 12

CallLookupBeats == (-2 .. 16) \cup {30, 36}

\* A lookup that returned a value other than the soft-fail inf.
Resolved(r) == r.outcome = "ok" /\ ~IsInf(r.value) /\ ~IsNaN(r.value)

----------------------------------------------------------------------------
(* Properties of BPSLines construction (BpsSpec).                          *)

\* C1: after every successful init_beat_bpms and add_beat_stops, negative
\* BPMs and negative stop durations included, the stored lines have
\* non-decreasing start times from first to last.
C1_StartTimesNonDecreasing ==
    \A i \in 1 .. (Len(bps_lines) - 1) :
        QLe(bps_lines[i][1], bps_lines[i + 1][1])

\* Stops were added to a map and a warp was bridged: the stored lines hold
\* an instantaneous (infinite-bps) line and a stopped (zero-bps) line.
C1_Witness ==
    /\ bps_outcome = "ok"
    /\ stops_added > 0
    /\ \E i \in 1 .. Len(bps_lines) : IsInf(bps_lines[i][3])
    /\ \E i \in 1 .. Len(bps_lines) : IsZero(bps_lines[i][3])

\* C29: a construction call that raises stores nothing: after a failed
\* init_beat_bpms or add_beat_stops the map holds exactly the lines it held
\* before the call, which is all that a later lookup reads.
C29_FailedCallPublishesNothing ==
    [][bps_outcome' # "ok" => bps_lines' = bps_lines]_vars

\* A call that raised its validation error on a map that holds lines.
C29_Witness ==
    /\ bps_outcome = "ValueError"
    /\ Len(bps_lines) > 1

\* C34: after every successful init_beat_bpms or add_beat_stops the last
\* line of the map has a bps that is finite and not negative.
C34_LastLineForward ==
    (bps_outcome = "ok" /\ bps_lines # <<>>)
       => /\ QLe(Q(0), bps_lines[Len(bps_lines)][3])
          /\ ~IsInf(bps_lines[Len(bps_lines)][3])
          /\ ~IsNaN(bps_lines[Len(bps_lines)][3])

----------------------------------------------------------------------------
(* Properties of a loader's calls (CallSpec).                              *)

\* C23: after add_beat_stops with a stop of d > 0 and, at a later beat b2,
\* a stop of -d, lookups past the pair are as before the call: beat_at_time
\* for every time after the time at which the map resumes (the time the old
\* map reached b2, plus d) and time_at_beat for every beat after the beat
\* at which it resumes (the beat the old map had at that time).  On the
\* test's map with stops (24,2),(26,-2), beat_at_time(10) is still 36 and
\* time_at_beat(36) still 10.
C23_CancellingStopsRestore ==
    (/\ bps_call.op = "add_beat_stops"
     /\ bps_call.arg \in CancellingStops \cup {TestStops}
     /\ bps_outcome = "ok")
       => LET before == bps_call.before
              d == bps_call.arg[1][2]
              b2 == bps_call.arg[2][1]
              resume_time ==
                  QAdd(TimeAtBeat(before, Q(b2), 0, TRUE, TRUE).value, Q(d))
              resume_beat == BeatAtTime(before, resume_time, 0, TRUE, TRUE).value
          IN  /\ \A t \in CallTimes, allow_stop, allow_warp \in BOOLEAN :
                    QLt(resume_time, Q(t))
                       => BeatAtTime(bps_lines, Q(t), 0, allow_stop, allow_warp).value
                          = BeatAtTime(before, Q(t), 0, allow_stop, allow_warp).value
              /\ \A b \in CallLookupBeats, allow_stop, allow_warp \in BOOLEAN :
                    QLt(resume_beat, Q(b))
                       => TimeAtBeat(bps_lines, Q(b), 0, allow_stop, allow_warp).value
                          = TimeAtBeat(before, Q(b), 0, allow_stop, allow_warp).value
              /\ (before = TestLines /\ bps_call.arg = TestStops)
                    => /\ BeatAtTime(before, Q(10), 0, FALSE, FALSE).value = Q(36)
                       /\ TimeAtBeat(before, Q(36), 0, FALSE, FALSE).value = Q(10)
                       /\ BeatAtTime(bps_lines, Q(10), 0, FALSE, FALSE).value = Q(36)
                       /\ TimeAtBeat(bps_lines, Q(36), 0, FALSE, FALSE).value = Q(10)

\* C24: a stop of duration 0, at a beat inside a line, on a line boundary,
\* at beat 0 or inside a warp, changes no resolved lookup: every
\* beat_at_time and time_at_beat from line 0 that returned a value other
\* than inf before the call returns the same value after it, for every
\* allow_stop/allow_warp setting.
C24_ZeroStopChangesNothing ==
    (/\ bps_call.op = "add_beat_stops"
     /\ Len(bps_call.arg) = 1
     /\ bps_call.arg[1][2] = 0)
       => \A allow_stop, allow_warp \in BOOLEAN :
             /\ \A t \in CallTimes :
                   LET old == BeatAtTime(bps_call.before, Q(t), 0, allow_stop, allow_warp)
                       new == BeatAtTime(bps_lines, Q(t), 0, allow_stop, allow_warp)
                   IN  Resolved(old) => new.outcome = "ok" /\ new.value = old.value
             /\ \A b \in CallLookupBeats :
                   LET old == TimeAtBeat(bps_call.before, Q(b), 0, allow_stop, allow_warp)
                       new == TimeAtBeat(bps_lines, Q(b), 0, allow_stop, allow_warp)
                   IN  Resolved(old) => new.outcome = "ok" /\ new.value = old.value

\* A zero stop added inside a warp of a map that already holds a stop: the
\* map has gained the stop's two lines.
C24_Witness ==
    /\ bps_call.op = "add_beat_stops"
    /\ bps_call.arg = << <<6, 0>> >>
    /\ bps_call.stop_calls = 2
    /\ bps_outcome = "ok"
    /\ Len(bps_lines) = Len(bps_call.before) + 2
    /\ \E i \in 1 .. Len(bps_call.before) :
          /\ IsInf(bps_call.before[i][3])
          /\ QLt(bps_call.before[i][2], Q(6))
          /\ i < Len(bps_call.before)
          /\ QLt(Q(6), bps_call.before[i + 1][2])
    /\ \E i \in 1 .. Len(bps_call.before) : IsZero(bps_call.before[i][3])

\* C25: one stop of d > 0 at beat b added to a map without warps moves
\* time_at_beat by d for every beat after b and leaves it as it was for
\* every beat up to b; and the stop (0,2) added to the test's map with its
\* cancelling pair, which holds stops and warps, moves every resolved
\* time_at_beat after beat 0 by 2, so beat_at_time(10) is 32 and
\* time_at_beat(36) is 12.
C25_StopShiftsLaterBeats ==
    /\ (/\ bps_call.op = "add_beat_stops"
        /\ bps_call.stop_calls = 1
        /\ Len(bps_call.arg) = 1
        /\ bps_call.arg[1][2] > 0
        /\ \A i \in 1 .. Len(bps_call.before) : ~IsInf(bps_call.before[i][3])
        /\ bps_outcome = "ok")
          => \A b \in CallLookupBeats, allow_stop, allow_warp \in BOOLEAN :
                LET old == TimeAtBeat(bps_call.before, Q(b), 0, allow_stop, allow_warp)
                    new == TimeAtBeat(bps_lines, Q(b), 0, allow_stop, allow_warp)
                IN  new.value = IF b > bps_call.arg[1][1]
                                THEN QAdd(old.value, Q(bps_call.arg[1][2]))
                                ELSE old.value
    /\ (/\ bps_call.op = "add_beat_stops"
        /\ bps_call.arg = TestShift
        /\ bps_call.before = AddBeatStopsResult(TestLines, TestStops).lines)
          => /\ bps_outcome = "ok"
             /\ \A b \in CallLookupBeats, allow_stop, allow_warp \in BOOLEAN :
                   LET old == TimeAtBeat(bps_call.before, Q(b), 0, allow_stop, allow_warp)
                       new == TimeAtBeat(bps_lines, Q(b), 0, allow_stop, allow_warp)
                   IN  (b > 0 /\ Resolved(old)) => new.value = QAdd(old.value, Q(2))
             /\ BeatAtTime(bps_lines, Q(10), 0, FALSE, FALSE).value = Q(32)
             /\ TimeAtBeat(bps_lines, Q(36), 0, FALSE, FALSE).value = Q(12)

\* The stop (0,2) added to the test's map after its cancelling pair.
C25_Witness ==
    /\ bps_call.op = "add_beat_stops"
    /\ bps_call.arg = TestShift
    /\ bps_call.stop_calls = 2
    /\ Len(bps_call.before) = 7
    /\ bps_call.before[1] = TestLines[1]
    /\ bps_outcome = "ok"
    /\ Len(bps_lines) = 9
    /\ bps_lines[9] = <<Q(9), Q(30), Q(2)>>

\* A 2 s stop at beat 6 of the test map, which begins at 2 s: the lookup at
\* 4 s, the stop's last instant, is answered on its line.
C26_Witness ==
    /\ bps_call.op = "add_beat_stops"
    /\ bps_call.arg = << <<6, 2>> >>
    /\ bps_call.before = TestLines
    /\ bps_outcome = "ok"
    /\ BeatAtTime(bps_lines, Q(4), 0, TRUE, FALSE) = Found(Q(6), 1, Q(0))

\* C27: stops given for one beat are merged before they are inserted: the
\* map gets exactly one zero-bps line at that beat, and on a map without
\* warps time_at_beat of every later beat moves by one of the durations
\* given, not by their sum.
C27_DuplicateStopsMerged ==
    (/\ bps_call.op = "add_beat_stops"
     /\ bps_call.stop_calls = 1
     /\ bps_call.arg \in DuplicateStops
     /\ \A i \in 1 .. Len(bps_call.before) : ~IsInf(bps_call.before[i][3])
     /\ bps_outcome = "ok")
       => /\ Cardinality({ i \in 1 .. Len(bps_lines) :
                              /\ IsZero(bps_lines[i][3])
                              /\ bps_lines[i][2] = Q(bps_call.arg[1][1]) }) = 1
          /\ \A b \in CallLookupBeats :
                LET old == TimeAtBeat(bps_call.before, Q(b), 0, FALSE, FALSE)
                    new == TimeAtBeat(bps_lines, Q(b), 0, FALSE, FALSE)
                IN  (b > bps_call.arg[1][1] /\ Resolved(old))
                       => \E i \in 1 .. 2 :
                             new.value = QAdd(old.value, Q(bps_call.arg[i][2]))

\* C28: init_beat_bpms raises the validation error for every tempo list
\* whose beats are not strictly ascending, that holds a zero BPM, or whose
\* first beat is not 0, and stores a non-empty map for every other list,
\* negative BPMs included.  (A list without a first beat is allowed either
\* outcome here.)
C28_InitBeatBpmsValidates ==
    bps_call.op = "init_beat_bpms"
       => LET bpm_changes == bps_call.arg
              rejected == bps_outcome = "ValueError"
              accepted == bps_outcome = "ok" /\ Len(bps_lines) > 0
          IN  IF bpm_changes = <<>> THEN rejected \/ accepted
              ELSE IF \/ \E i \in 1 .. (Len(bpm_changes) - 1) :
                            bpm_changes[i][1] >= bpm_changes[i + 1][1]
                      \/ \E i \in 1 .. Len(bpm_changes) : bpm_changes[i][2] = 0
                      \/ bpm_changes[1][1] # 0
              THEN rejected
              ELSE accepted

\* C26: after a stop of d > 0 seconds is inserted at beat b, which the map
\* reaches at time t, beat_at_time from line 0 at every time x with
\* t < x <= t + d is answered on the stop's zero-bps line: it returns that
\* line's index, with beat b when allow_stop is set and inf when it is not.
C26_BeatAtTimeInsideStop ==
    (/\ bps_call.op = "add_beat_stops"
     /\ Len(bps_call.arg) = 1
     /\ bps_call.arg[1][2] > 0
     /\ bps_outcome = "ok")
       => LET b == Q(bps_call.arg[1][1])
              d == Q(bps_call.arg[1][2])
              begins == TimeAtBeat(bps_call.before, b, 0, TRUE, TRUE)
          IN  Resolved(begins)
                 => \A x \in CallTimes, allow_stop, allow_warp \in BOOLEAN :
                       (QLt(begins.value, Q(x)) /\ QLe(Q(x), QAdd(begins.value, d)))
                          => LET r == BeatAtTime(bps_lines, Q(x), 0, allow_stop, allow_warp)
                             IN  /\ r.outcome = "ok"
                                 /\ IsZero(bps_lines[r.cursor + 1][3])
                                 /\ bps_lines[r.cursor + 1][2] = b
                                 /\ r.value = IF allow_stop THEN b ELSE QInf

\* C38: add_beat_stops checks every stop against the beats of the map: a
\* list holding a beat below 0, or, on a map whose last line has a bps that
\* is not positive, a beat above the largest beat the map reaches (the
\* largest start_beat of its lines), raises the validation error and leaves
\* the map as it was.
C38_StopsValidated ==
    (/\ bps_call.op = "add_beat_stops"
     /\ bps_call.before # <<>>
     /\ LET before == bps_call.before
            last_bps == before[Len(before)][3]
            reached == { before[i][2] : i \in 1 .. Len(before) }
        IN  \/ \E i \in 1 .. Len(bps_call.arg) : bps_call.arg[i][1] < 0
            \/ /\ QLe(last_bps, Q(0))
               /\ \E i \in 1 .. Len(bps_call.arg) :
                     \A beat \in reached : QLt(beat, Q(bps_call.arg[i][1])))
       => /\ bps_outcome = "ValueError"
          /\ bps_lines = bps_call.before

----------------------------------------------------------------------------
(* Properties of lookups (QuerySpec).                                      *)

\* C20: on a map built by init_beat_bpms from a valid tempo list, negative
\* BPMs allowed also as the last entry, if beat_at_time(t) from line 0
\* resolves on a line with finite non-zero bps, then time_at_beat of that
\* beat from line 0 is t.
C20_RoundTrip ==
    (/\ query.op = "time_at_beat"
     /\ query.from # <<>>
     /\ stops_added = 0
     /\ bps_lines \in BuiltMaps
     /\ query.hint = 0
     /\ query.from[1].hint = 0
     /\ ~IsZero(query.from[1].bps)
     /\ ~IsInf(query.from[1].bps)
     /\ ~IsNaN(query.from[1].bps))
        => /\ query.outcome = "ok"
           /\ QEq(query.value, query.from[1].arg)

\* C21: beat_at_time from line 0 steps onto a line only if that line starts
\* strictly before the query time, so a query at a line's start_time is
\* solved on the line before it; the test's tempo list is stored as
\* (0,0,3),(2,6,4),(4,14,inf),(4,24,2) and gives beats 0, 6, 10, 14 at
\* times 0, 2, 3, 4.
C21_BeatAtTimeUndershoots ==
    /\ InitBeatBpmsResult(<<>>, TestBpms) = [outcome |-> "ok", lines |-> TestLines]
    /\ (query.op = "beat_at_time" /\ query.hint = 0 /\ bps_lines # <<>>)
          => LET c == query.cursor + 1
                 line == bps_lines[c]
             IN  /\ query.outcome = "ok"
                 /\ c \in 1 .. Len(bps_lines)
                 /\ \A i \in 2 .. c : QLt(bps_lines[i][1], query.arg)
                 /\ c < Len(bps_lines) => ~QLt(bps_lines[c + 1][1], query.arg)
                 /\ \A k \in 2 .. Len(bps_lines) :
                        (/\ QEq(bps_lines[k][1], query.arg)
                         /\ \A i \in 1 .. (k - 1) : QLt(bps_lines[i][1], query.arg))
                            => c = k - 1
                 /\ (~IsZero(line[3]) /\ ~IsInf(line[3]))
                        => query.value =
                             QAdd(QMul(line[3], QSub(query.arg, line[1])), line[2])
                 /\ bps_lines = TestLines
                        => /\ query.arg = Q(0) => query.value = Q(0)
                           /\ query.arg = Q(2) => query.value = Q(6)
                           /\ query.arg = Q(3) => query.value = Q(10)
                           /\ query.arg = Q(4) => query.value = Q(14)

\* The test's map asked for the beat at time 4, where two lines start.
C21_Witness ==
    /\ bps_lines = TestLines
    /\ query.op = "beat_at_time"
    /\ query.hint = 0
    /\ query.arg = Q(4)
    /\ query.cursor = 1
    /\ query.value = Q(14)

\* C22: time_at_beat from line 0 for a beat inside a warp (after the beat of
\* an infinite-bps bridge, up to the beat of the line that resumes) returns
\* inf when allow_warp is false and the bridge's start_time when it is true;
\* on the test's map beat 16 gives inf, or 4 when allowed, and beats 6, 10,
\* 14 give 2, 3, 4.
C22_TimeAtBeatInWarp ==
    (query.op = "time_at_beat" /\ query.hint = 0 /\ bps_lines # <<>>)
       => /\ \A i \in 1 .. (Len(bps_lines) - 1) :
                (/\ IsInf(bps_lines[i][3])
                 /\ QLt(bps_lines[i][2], query.arg)
                 /\ QLe(query.arg, bps_lines[i + 1][2]))
                    => /\ query.outcome = "ok"
                       /\ query.cursor = i - 1
                       /\ query.value = IF query.allow_warp THEN bps_lines[i][1]
                                                             ELSE QInf
          /\ bps_lines = TestLines
                => /\ query.arg = Q(16)
                        => query.value = IF query.allow_warp THEN Q(4) ELSE QInf
                   /\ query.arg = Q(6) => query.value = Q(2)
                   /\ query.arg = Q(10) => query.value = Q(3)
                   /\ query.arg = Q(14) => query.value = Q(4)

\* The test's map asked for the time at the warped beat 16, warps allowed.
C22_Witness ==
    /\ bps_lines = TestLines
    /\ query.op = "time_at_beat"
    /\ query.hint = 0
    /\ query.arg = Q(16)
    /\ query.allow_warp
    /\ query.cursor = 2
    /\ query.value = Q(4)

----------------------------------------------------------------------------
(* Properties of a single note (NoteSpec).                                 *)

\* C2: a note's judgement is write-once: once it is not None, no press,
\* release or poll, at any song time, changes it.
C2_JudgementWriteOnce ==
    [][note.judgement # None => note'.judgement = note.judgement]_vars

\* C13: a Tap press maps d = song_time - timing to Marvelous, Perfect,
\* Great, Good or Boo by |d| (accuracy d), to Miss when later than the Boo
\* window, and on an open note to no judgement with accuracy cleared when
\* earlier; so the note stays open over too-early presses and a later press
\* in a window gets that window's judgement.
C13_TapPressWindows ==
    [][(note.kind = "Tap" /\ note_log'.op = "press")
         => LET d == note_log'.time - note.timing
                a == Abs(d)
                judged(j) == /\ note_ret' = j
                             /\ note'.judgement = j
                             /\ note'.accuracy = <<d>>
            IN  /\ a <= 225 => judged("MARVELOUS")
                /\ (225 < a /\ a <= 450) => judged("PERFECT")
                /\ (450 < a /\ a <= 900) => judged("GREAT")
                /\ (900 < a /\ a <= 1350) => judged("GOOD")
                /\ (1350 < a /\ a <= 1800) => judged("BOO")
                /\ d > 1800 => note_ret' = "MISS" /\ note'.judgement = "MISS"
                /\ (d < -1800 /\ note.judgement = None)
                      => /\ note_ret' = None
                         /\ note'.judgement = None
                         /\ note'.accuracy = <<>>]_vars

\* After a too-early press, a press 0.02 s late has returned Marvelous.
C13_Witness ==
    /\ note.kind = "Tap"
    /\ note_log.early
    /\ note_log.op = "press"
    /\ note_log.time - note.timing = 200
    /\ note_ret = "MARVELOUS"
    /\ note.accuracy = <<200>>

\* C14: a Tap poll stores and returns Miss exactly when song_time is more
\* than 0.18 past the timing and no press has scored the note; every other
\* poll returns no judgement and leaves judgement and accuracy as they are.
C14_TapPollMissOnlyIfUnscored ==
    [][(note.kind = "Tap" /\ note_log'.op = "poll")
         => IF note_log'.time - note.timing > 1800 /\ ~note_log.press_scored
            THEN note_ret' = "MISS" /\ note'.judgement = "MISS"
            ELSE /\ note_ret' = None
                 /\ note'.judgement = note.judgement
                 /\ note'.accuracy = note.accuracy]_vars

\* C15: an unjudged Hold that has had a press at or after timing - 0.18,
\* at whatever song time, negative ones included, returns OK from a poll at
\* or after its tail timing.
C15_PressedHoldOkAtTail ==
    [][(/\ note.kind = "Hold"
        /\ note.judgement = None
        /\ note_log.last_press # <<>>
        /\ note_log'.op = "poll"
        /\ note_log'.time >= note.tail_timing)
         => note_ret' = "OK" /\ note'.judgement = "OK"]_vars

\* C16: a poll before the tail of a pressed, unjudged Hold returns NG if
\* song_time - last_held > 0.25; else, if held and song_time - timing >=
\* -0.18, it sets last_held to song_time and returns nothing; else it
\* changes nothing.
C16_HoldDecay ==
    [][(/\ note.kind = "Hold"
        /\ note.judgement = None
        /\ note_log.last_press # <<>>
        /\ note_log'.op = "poll"
        /\ note_log'.time < note.tail_timing)
         => IF note_log'.time - note.last_held > 2500
            THEN note_ret' = "NG" /\ note'.judgement = "NG"
            ELSE IF note_log'.held /\ note_log'.time - note.timing >= -1800
            THEN /\ note' = [note EXCEPT !.last_held = note_log'.time]
                 /\ note_ret' = None
            ELSE note' = note /\ note_ret' = None]_vars

\* C17: a Hold or Roll that never had a press at or after timing - 0.18 is
\* judged Miss by a poll more than 0.18 past its timing, and any other poll
\* returns nothing and changes nothing, whether the key is held or not.
C17_UnpressedMiss ==
    [][(/\ note.kind \in {"Hold", "Roll"}
        /\ note.judgement = None
        /\ note_log.last_press = <<>>
        /\ note_log'.op = "poll")
         => IF note_log'.time - note.timing > 1800
            THEN note_ret' = "MISS" /\ note'.judgement = "MISS"
            ELSE note_ret' = None /\ note' = note]_vars

\* A Hold polled with the key held and never pressed has returned Miss.
C17_Witness ==
    /\ note.kind = "Hold"
    /\ note_log.op = "poll"
    /\ note_log.held
    /\ note_log.last_press = <<>>
    /\ note_ret = "MISS"

\* C18: a pressed, unjudged Roll returns OK from a poll at or after its
\* tail; before the tail a poll returns NG exactly when it is more than
\* 0.5 s after the last press, and no poll, held or not, changes last_held.
C18_RollDecay ==
    [][(/\ note.kind = "Roll"
        /\ note.judgement = None
        /\ note_log.last_press # <<>>
        /\ note_log'.op = "poll")
         => /\ note'.last_held = note.last_held
            /\ IF note_log'.time >= note.tail_timing
               THEN note_ret' = "OK" /\ note'.judgement = "OK"
               ELSE IF note_log'.time - note_log.last_press[1] > 5000
               THEN note_ret' = "NG" /\ note'.judgement = "NG"
               ELSE note_ret' = None /\ note' = note]_vars

\* C19: a Mine press within 0.05 s judges NG; a poll more than 0.05 s late
\* with no press having judged it judges OK; a poll with the key held
\* within 0.05 s judges NG; any other press or poll returns nothing and
\* changes nothing; the accuracy is never set.
C19_MineTransitions ==
    [][(note.kind = "Mine" /\ note_log'.op \in {"press", "poll"})
         => LET d == note_log'.time - note.timing
            IN  /\ note'.accuracy = <<>>
                /\ IF note_log'.op = "press"
                   THEN IF Abs(d) <= 500
                        THEN note_ret' = "NG" /\ note'.judgement = "NG"
                        ELSE note_ret' = None /\ note' = note
                   ELSE IF d > 500 /\ ~note_log.press_scored
                        THEN note_ret' = "OK" /\ note'.judgement = "OK"
                        ELSE IF note_log'.held /\ Abs(d) <= 500
                        THEN note_ret' = "NG" /\ note'.judgement = "NG"
                        ELSE note_ret' = None /\ note' = note]_vars

\* C40: the head of a hold or a roll has no late limit.  A press on a note
\* no poll has judged, at a song time that is at least timing - 0.18 s and
\* at least 0, sets accuracy if it was unset and last_held, and returns no
\* judgement, however long after the head it comes; a press before
\* timing - 0.18 s changes nothing; and while the last press taken was one
\* at a song time of at least 0, no poll judges the note Miss.
C40_HeadPressNoLateLimit ==
    [][note.kind \in {"Hold", "Roll"}
         => LET song_time == note_log'.time
            IN  /\ (note_log'.op = "press" /\ note.judgement = None)
                      => IF song_time >= note.timing - BooWindow /\ song_time >= 0
                         THEN /\ note'.accuracy = IF note.accuracy = <<>>
                                                  THEN <<song_time - note.timing>>
                                                  ELSE note.accuracy
                              /\ note'.last_held = song_time
                              /\ note'.judgement = None
                              /\ note_ret' = None
                         ELSE song_time < note.timing - BooWindow
                                 => note' = note /\ note_ret' = None
                /\ (/\ note_log'.op = "poll"
                    /\ note.judgement = None
                    /\ note_log.last_press # <<>>
                    /\ note_log.last_press[1] >= 0)
                      => note'.judgement # "MISS"]_vars

----------------------------------------------------------------------------
(* Properties of the play session (Spec, TickSpec).                        *)

\* C3: poll, press_key and release_key never raise: press_key and
\* release_key return None and poll returns a boolean, also when a lane is
\* empty or its cursor is at the end.
C3_CallsNeverRaise ==
    /\ result["input"] = "None"
    /\ result["poller"] \in {"None", "True", "False"}

\* C4: with at least one lane and finite note timings, polled with song
\* times that keep increasing, some poll eventually returns true.
C4_SomePollReturnsTrue == <>(result["poller"] = "True")

\* C5: poll returns true only when every lane's cursor is at the end of its
\* lane, and returns false whenever it polled an unresolved note.
C5_TrueOnlyWhenComplete ==
    [][(pc["poller"] = "poll_metrics" /\ pc'["poller"] = "idle")
         => /\ result'["poller"] = "True"
                 => \A c \in 1 .. NumLanes : note_cursors'[c] = Len(note_columns'[c])
            /\ ~pl.complete => result'["poller"] = "False"]_vars

\* C6: when press_key and poll race for a lane's head note, the note is
\* judged by exactly one of them: no note is recorded twice, and whenever
\* the lock is free the recorded notes are exactly the judged ones, exactly
\* the ones below their lane's cursor, and each judgement's count is the
\* number of notes that carry it.
C6_HeadJudgedOnce ==
    /\ \A c \in 1 .. NumLanes : \A i \in 1 .. Len(note_columns[c]) :
          Len(scored[c][i]) <= 1
    /\ game_lock = "free" =>
         /\ \A c \in 1 .. NumLanes : \A i \in 1 .. Len(note_columns[c]) :
               /\ Len(scored[c][i]) = 1 <=> note_columns[c][i].judgement # None
               /\ Len(scored[c][i]) = 1 <=> i <= note_cursors[c]
         /\ \A j \in Judgements :
               judgement_counts[j] =
                   Cardinality({ci \in UNION {{<<c, i>> : i \in 1 .. Len(note_columns[c])} :
                                                  c \in 1 .. NumLanes} :
                                   note_columns[ci[1]][ci[2]].judgement = j})

\* press_key has judged the head note of a lane while poll waits for the
\* lock, and the next note of that lane is left for poll.
C6_Witness ==
    /\ pc["input"] = "press_score"
    /\ pc["poller"] = "poll_wait"
    /\ inp.judgement # None
    /\ inp.index = 0
    /\ Len(At(note_columns, inp.key)) = 2

\* C7: through the GameField, the judgement of every note changes at most
\* once: from None to a judgement, and never again.
C7_JudgedAtMostOnce ==
    [][\A c \in 1 .. NumLanes : \A i \in 1 .. Len(note_columns[c]) :
          note_columns[c][i].judgement # None
              => note_columns'[c][i].judgement = note_columns[c][i].judgement]_vars

\* A key is pressed on a lane whose first note is already judged.
C7_Witness ==
    /\ pc["input"] = "press_note"
    /\ Len(At(note_columns, inp.key)) > 0
    /\ At(At(note_columns, inp.key), 0).judgement # None

\* C8: between calls, a lane's cursor is the index of its first unresolved
\* note: the notes below it are judged, the notes from it on are not.
C8_CursorAtFirstUnresolved ==
    game_lock = "free" =>
        \A c \in 1 .. NumLanes : \A i \in 1 .. Len(note_columns[c]) :
            i <= note_cursors[c] <=> note_columns[c][i].judgement # None

\* Between calls, a lane is partly played.
C8_Witness ==
    /\ game_lock = "free"
    /\ \E c \in 1 .. NumLanes :
          /\ 0 < note_cursors[c]
          /\ note_cursors[c] < Len(note_columns[c])
          /\ note_columns[c][1].judgement # None

\* C9: over any sequence of press_key, release_key, poll and get_metrics a
\* lane's cursor never decreases and stays within 0 .. len(lane).
C9_CursorMonotoneInRange ==
    /\ [](\A c \in 1 .. NumLanes :
             0 <= note_cursors[c] /\ note_cursors[c] <= Len(note_columns[c]))
    /\ [][\A c \in 1 .. NumLanes : note_cursors'[c] >= note_cursors[c]]_vars

\* get_metrics runs when a lane's cursor has reached the end of its notes.
C9_Witness ==
    /\ pc["render"] = "metrics_copy"
    /\ \E c \in 1 .. NumLanes :
          /\ Len(note_columns[c]) > 0
          /\ note_cursors[c] = Len(note_columns[c])

\* C10: press_key forwards the press to the cursor note of its lane only.
\* If the note returns a judgement, that judgement's count grows by one, it
\* becomes the last judgement and that lane's cursor grows by one; if not,
\* counts, last judgement and cursors are as before the call.  No other
\* note and no other lane's cursor changes.
C10_PressKeyEffect ==
    [][(pc["input"] \in {"press_note", "press_score"} /\ pc'["input"] = "idle")
         => LET board == pre.board
                k == inp.key + 1
                column == board.columns[k]
                note_index == board.cursors[k]
            IN  IF note_index < Len(column)
                THEN LET r == NotePress(column[note_index + 1], inp.time)
                     IN  /\ note_columns' =
                               [board.columns EXCEPT ![k][note_index + 1] = r.note]
                         /\ IF r.ret # None
                            THEN /\ judgement_counts' =
                                       [board.counts EXCEPT ![r.ret] = @ + 1]
                                 /\ last_judgement' = r.ret
                                 /\ note_cursors' =
                                       [board.cursors EXCEPT ![k] = @ + 1]
                            ELSE /\ judgement_counts' = board.counts
                                 /\ last_judgement' = board.last
                                 /\ note_cursors' = board.cursors
                ELSE /\ note_columns' = board.columns
                     /\ judgement_counts' = board.counts
                     /\ last_judgement' = board.last
                     /\ note_cursors' = board.cursors]_vars

\* press_key is about to record a judgement in a chart with another lane.
C10_Witness ==
    /\ pc["input"] = "press_score"
    /\ inp.judgement # None
    /\ NumLanes >= 2

\* C11: one poll resolves, in each lane, every consecutive head note that
\* is due: it polls the cursor note, records each returned judgement and
\* advances, and stops at the first note that returns none or at the end
\* of the lane; where it stops short of the end, the cursor note's poll at
\* that time returns no judgement.
C11_PollResolvesDueNotes ==
    [][(pc["poller"] = "poll_note" /\ pc'["poller"] = "poll_metrics")
         => LET board == pre.board
                lane == [c \in 1 .. NumLanes |->
                            PollLane(board.columns[c], board.cursors[c],
                                     pl.time, pl.held[c])]
                judging == {c \in 1 .. NumLanes : lane[c].judged # <<>>}
                last_lane == CHOOSE c \in judging : \A d \in judging : d <= c
            IN  /\ note_columns' = [c \in 1 .. NumLanes |-> lane[c].column]
                /\ note_cursors' = [c \in 1 .. NumLanes |-> lane[c].cursor]
                /\ \A j \in Judgements :
                      judgement_counts'[j] = board.counts[j] +
                          Cardinality({ci \in UNION {{<<c, i>> : i \in 1 .. Len(lane[c].judged)} :
                                                        c \in 1 .. NumLanes} :
                                          lane[ci[1]].judged[ci[2]] = j})
                /\ last_judgement' =
                      IF judging = {} THEN board.last
                      ELSE lane[last_lane].judged[Len(lane[last_lane].judged)]
                /\ \A c \in 1 .. NumLanes :
                      note_cursors'[c] < Len(note_columns'[c])
                          => NotePoll(note_columns'[c][note_cursors'[c] + 1],
                                      pl.time, pl.held[c]).ret = None]_vars

\* One poll has recorded two notes of a lane and stopped at a third.
C11_Witness ==
    /\ pc["poller"] = "poll_metrics"
    /\ \E c \in 1 .. NumLanes :
          /\ note_cursors[c] >= pre.board.cursors[c] + 2
          /\ note_cursors[c] < Len(note_columns[c])

\* The sum of all judgement counts.
C39_Total(counts) ==
    LET order == <<"MARVELOUS", "PERFECT", "GREAT", "GOOD", "BOO", "MISS", "OK", "NG">>
    IN  SumSeq([k \in 1 .. Len(order) |-> counts[order[k]]])

\* C39: in every scoreboard state a caller can find (the lock is free), the
\* sum of all judgement counts equals the sum of the lane cursors and the
\* number of notes that carry a judgement, and last judgement is None
\* exactly when that sum is 0; and no step of any call lowers a count.
C39_ScoreboardSums ==
    /\ [](game_lock = "free"
            => LET total == C39_Total(judgement_counts)
                   judged == { ci \in UNION {{<<c, i>> : i \in 1 .. Len(note_columns[c])} :
                                                c \in 1 .. NumLanes} :
                                  note_columns[ci[1]][ci[2]].judgement # None }
               IN  /\ total = SumSeq(note_cursors)
                   /\ total = Cardinality(judged)
                   /\ last_judgement = None <=> total = 0)
    /\ [][\A j \in Judgements : judgement_counts'[j] >= judgement_counts[j]]_vars

\* Between calls, a lane of three notes has been played: one judgement has
\* been counted twice and another one was the last.
C39_Witness ==
    /\ game_lock = "free"
    /\ \E c \in 1 .. NumLanes : note_cursors[c] = 3
    /\ \E j \in Judgements :
          /\ judgement_counts[j] = 2
          /\ last_judgement \notin {j, None}

----------------------------------------------------------------------------
(* Properties of get_metrics (SnapSpec).                                   *)

\* C12: get_metrics returns a snapshot and changes no scoreboard state: a
\* write into the returned count table leaves the scoreboard as it is, so a
\* later get_metrics returns the true counts, and no step of press_key,
\* release_key or poll changes a snapshot already returned.
C12_SnapshotIsolated ==
    [][/\ pc'["render"] # pc["render"]
            => /\ note_columns' = note_columns
               /\ note_cursors' = note_cursors
               /\ judgement_counts' = judgement_counts
               /\ last_judgement' = last_judgement
               /\ nps_avg' = nps_avg
               /\ accuracy_avg' = accuracy_avg
       /\ (pc["render"] = "metrics_copy" /\ pc'["render"] = "idle")
            => /\ SnapshotView' = [counts |-> judgement_counts,
                                   last |-> last_judgement, nps |-> nps_avg,
                                   accuracy |-> accuracy_avg]
               /\ \A j \in Judgements :
                     judgement_counts[j] =
                         Cardinality({ci \in UNION {{<<c, i>> : i \in 1 .. Len(note_columns[c])} :
                                                       c \in 1 .. NumLanes} :
                                         note_columns[ci[1]][ci[2]].judgement = j})
       /\ (snapshot # <<>> /\ pc'["render"] = pc["render"])
            => IF pc' = pc /\ pl' = pl /\ inp' = inp
               THEN /\ judgement_counts' = judgement_counts
                    /\ last_judgement' = last_judgement
                    /\ nps_avg' = nps_avg
                    /\ accuracy_avg' = accuracy_avg
               ELSE SnapshotView' = SnapshotView]_vars

\* The caller has written into a table it was given, a later poll or
\* press_key has recorded a miss, and get_metrics is called again.
C12_Witness ==
    /\ snapshot # <<>>
    /\ snapshot.counts.table["MISS"] = -1
    /\ judgement_counts["MISS"] >= 1
    /\ pc["render"] = "metrics_copy"

\* C30: on a constructed map, a beat_at_time or time_at_beat call whose
\* hint h satisfies 0 <= h < number of lines does not raise and returns a
\* line index h' with h <= h' <= number of lines - 1, whether its value is
\* resolved or is the soft-fail inf; a lookup leaves the stored map as it
\* is.
C30_LookupsNeverRaise ==
    [][query' # NoQuery
          => /\ bps_lines' = bps_lines
             /\ (query'.hint >= 0 /\ query'.hint < Len(bps_lines))
                   => /\ query'.outcome = "ok"
                      /\ query'.hint <= query'.cursor
                      /\ query'.cursor <= Len(bps_lines) - 1]_vars

\* A time_at_beat hinted at line 1 that moved on to the last line of its
\* map and soft-failed there.
C30_Witness ==
    /\ query # NoQuery
    /\ query.op = "time_at_beat"
    /\ query.hint = 1
    /\ query.cursor > 1
    /\ query.cursor = Len(bps_lines) - 1
    /\ query.outcome = "ok"
    /\ query.value = QInf

\* C31: a time_at_beat whose search ends on the last line of the map, when
\* that line's bps is zero or negative and the beat asked for is above the
\* line's start_beat, returns the soft-fail inf under every allow_stop and
\* allow_warp setting.
C31_UnreachableBeatIsInf ==
    (/\ query # NoQuery
     /\ query.op = "time_at_beat"
     /\ query.outcome = "ok"
     /\ query.cursor = Len(bps_lines) - 1
     /\ QLe(bps_lines[Len(bps_lines)][3], Q(0))
     /\ QLt(bps_lines[Len(bps_lines)][2], query.arg))
       => query.value = QInf

----------------------------------------------------------------------------
(* Properties of poll's windowed metrics (WindowSpec).                     *)

\* The notes a backward walk from each lane's cursor reaches at song_time:
\* <<lane, index>> such that every note from the index up to the cursor
\* has its head timing above song_time - 5 s.
C32_Reached(song_time) ==
    { p \in UNION { {c} \X (0 .. At(note_cursors, c)) : c \in Lanes } :
         \A j \in p[2] .. At(note_cursors, p[1]) :
            At(At(note_columns, p[1]), j).timing > song_time - MetricsWindow }

C32_Counted(song_time) ==
    { p \in C32_Reached(song_time) : At(At(note_columns, p[1]), p[2]).accuracy # <<>> }

RECURSIVE C32_Sum(_)
C32_Sum(ps) ==
    IF ps = {} THEN 0
    ELSE LET p == CHOOSE x \in ps : TRUE
         IN  At(At(note_columns, p[1]), p[2]).accuracy[1] + C32_Sum(ps \ {p})

\* C32: when poll(time, held) returns, nps is count / 5 and the accuracy
\* average is sum / (count * 5), count and sum taken over the notes with a
\* defined accuracy that a backward walk from each lane's cursor reaches
\* while head timings are above time - 5 s; both are 0 when count is 0.
C32_WindowedMetrics ==
    [][(/\ pc["poller"] = "poll_metrics"
        /\ pc'["poller"] = "idle"
        /\ result'["poller"] \in {"True", "False"})
          => LET count == Cardinality(C32_Counted(pl.time))
                 sum == C32_Sum(C32_Counted(pl.time))
             IN  IF count = 0
                 THEN /\ nps_avg'[1] = 0 /\ nps_avg'[2] # 0
                      /\ accuracy_avg'[1] = 0 /\ accuracy_avg'[2] # 0
                 ELSE /\ nps_avg'[2] # 0
                      /\ nps_avg'[1] * 5 = count * nps_avg'[2]
                      /\ accuracy_avg'[2] # 0
                      /\ accuracy_avg'[1] * (count * 5) = sum * accuracy_avg'[2]]_vars

\* poll(5.9) has returned: the tap judged 0.02 s late is older than 5 s
\* and no longer counts; the next tap and the hold pressed at 5.9 s do.
C32_Witness ==
    /\ note_columns[1][1].accuracy = <<200>>
    /\ note_columns[1][2].accuracy = <<0>>
    /\ note_columns[2][1].accuracy = <<1000>>
    /\ note_cursors = <<2, 0>>
    /\ result["poller"] = "False"
    /\ pc["poller"] = "idle"
    /\ nps_avg = <<2, 5>>
    /\ accuracy_avg = <<1000, 10>>

\* C37: the GameField keeps no note whose timing is inf on its lanes, so
\* that no cursor waits at a note that can never be given a judgement.
C37_UnhittableDropped ==
    \A c \in Lanes : \A i \in 0 .. (Len(At(note_columns, c)) - 1) :
       At(At(note_columns, c), i).timing < InfTiming

----------------------------------------------------------------------------
(* Properties of the locks (LockSpec).                                     *)

\* C33: with the input thread in press_key / release_key, the polling
\* thread in poll and the render thread in get_metrics and in the notes'
\* getters, a thread is inside at most one note's lock, the input and
\* polling threads only while they hold the scoreboard lock, the render
\* thread only while it neither holds nor waits for it; and under fair
\* scheduling every call returns and every note lock is left again.
C33_NoDeadlock ==
    /\ [](\A thread \in Threads :
             /\ Cardinality(Held(thread)) <= 1
             /\ Held(thread) # {}
                   => IF thread = "render"
                      THEN pc["render"] = "idle" /\ game_lock # "render"
                      ELSE game_lock = thread)
    /\ \A thread \in Threads :
          /\ (pc[thread] # "idle") ~> (pc[thread] = "idle")
          /\ (Held(thread) # {}) ~> (Held(thread) = {})

\* press_key holds the scoreboard lock and waits for the lock of the tap,
\* which the render thread is inside.
C33_Witness ==
    /\ game_lock = "input"
    /\ pc["input"] = "press_note"
    /\ pc["poller"] = "poll_wait"
    /\ Callee("input") = <<0, 0>>
    /\ Held("render") = {<<0, 0>>}

\* C35: on a map built by init_beat_bpms, with or without add_beat_stops
\* after it, beat_at_time from line 0 is never answered on a line of
\* infinite bps, whatever the time asked for.
C35_NoWarpFromStart ==
    (/\ query # NoQuery
     /\ query.op = "beat_at_time"
     /\ query.hint = 0
     /\ query.outcome = "ok")
       => ~IsInf(query.bps)

----------------------------------------------------------------------------
(* Properties of a forward reader (ReadSpec).                              *)

\* C36: a caller that asks beat_at_time for times that never decrease, or
\* time_at_beat for beats that never decrease, starting from line 0 and
\* handing each returned index to its next call, gets from every call the
\* value and the index that the same call returns from line 0.
C36_HintThreading ==
    query # NoQuery
       => LET r == IF query.op = "beat_at_time"
                   THEN BeatAtTime(bps_lines, query.arg, 0, query.allow_stop,
                                   query.allow_warp)
                   ELSE TimeAtBeat(bps_lines, query.arg, 0, query.allow_stop,
                                   query.allow_warp)
          IN  /\ query.outcome = r.outcome
              /\ query.value = r.value
              /\ query.cursor = r.cursor

\* read_notes on the test map: a row at beat 10 was solved on line 1, and
\* the row at beat 16, inside the warp, is looked up from there.
C36_Witness ==
    /\ bps_lines = TestLines
    /\ query # NoQuery
    /\ query.op = "time_at_beat"
    /\ query.arg = Q(16)
    /\ query.hint = 1
    /\ query.cursor = 2
    /\ query.value = QInf

=============================================================================
